---------------------------- MODULE Spec2Model ----------------------------
(***************************************************************************)
(* Collapse Archetype Quiz: the scoring engine (src/scoring-engine.js) as  *)
(* a state machine.  A caller holds a quiz definition, a response list, a  *)
(* score map and the scoring options, and applies the engine's exported    *)
(* functions to them; `out` holds what the last call returned or threw.    *)
(*                                                                         *)
(* Numbers.  The engine computes with JavaScript numbers; the model holds  *)
(* them as exact rationals on fixed grids:                                 *)
(*   - a question weight is a whole number of 1/WeightDen,                 *)
(*   - a point value is a whole number of 1/PointDen,                      *)
(*   - a score is a whole number of 1/ScoreDen, ScoreDen = WeightDen *     *)
(*     PointDen, so that weight * points is exact,                         *)
(*   - a ratio (tolerance, threshold, confidence) is [num, den],           *)
(*   - a trait value is a whole number of tenths,                          *)
(*   - a cosine similarity is a whole number of 1/SimDen, cut off.         *)
(* Every comparison against one of the engine's constants is made exactly  *)
(* by cross-multiplication.                                                *)
(***************************************************************************)
EXTENDS Integers, Sequences, FiniteSets, TLC

VARIABLES
    questions,      \* the quiz definition handed to the engine
    userResponses,  \* the response list handed to the engine
    scores,         \* a score map: entries [id, score] in insertion order
    options,        \* [tieTolerance, breakTiesWithTraits, includeVisualizations]
    out,            \* what the last call returned ([op |-> "none"] before any)
    state,          \* the state object of the legacy state module
    QuizState,      \* the QuizState object of the active application
    page            \* the document: answer buttons, key listeners, timers

vars == <<questions, userResponses, scores, options, out, state, QuizState, page>>

\* The state object as the legacy state module declares it (part_004 lines
\* 21-41); dominantArchetype is <<>> for null, <<id>> otherwise.
EmptyState ==
    [archetypes |-> << >>, questions |-> << >>, currentQuestionIndex |-> 0,
     responses |-> << >>, scores |-> << >>, dominantArchetype |-> << >>]

\* QuizState as app.js declares it (lines 22-35); quizData is <<>> for null.
EmptyQuizState ==
    [currentQuestionIndex |-> 0, responses |-> << >>, scores |-> << >>,
     quizData |-> << >>, scoringResult |-> << >>]

\* The document before a quiz is started: the welcome screen, no answer
\* button, no key listener of an answer, no timer pending.
BlankPage ==
    [screen |-> "welcome", question |-> << >>, buttons |-> << >>,
     keyHandlers |-> << >>, timers |-> << >>, displayed |-> 0,
     submitted |-> << >>, retakes |-> 0]

\* The engine is called on its own: neither application has been loaded.
ApplicationsNotLoaded ==
    /\ state = EmptyState
    /\ QuizState = EmptyQuizState
    /\ page = BlankPage

-----------------------------------------------------------------------------
(* Number grids *)

WeightDen == 2
PointDen == 12500
ScoreDen == WeightDen * PointDen

Abs(x) == IF x < 0 THEN -x ELSE x

SetMax(S) == CHOOSE x \in S : \A y \in S : y <= x

SetMin(S) == CHOOSE x \in S : \A y \in S : x <= y

Range(s) == {s[i] : i \in 1..Len(s)}

RECURSIVE SeqSum(_)
SeqSum(s) == IF Len(s) = 0 THEN 0 ELSE Head(s) + SeqSum(Tail(s))

\* The score x (in score units) is strictly below the constant c = [num, den].
ScoreBelow(x, c) == x * c.den < c.num * ScoreDen

-----------------------------------------------------------------------------
(* Configuration constants, scoring-engine.js lines 24-39 *)

TIE_TOLERANCE == [num |-> 5, den |-> 100]

MINIMUM_VARIANCE == [num |-> 1, den |-> 10]

CONFIDENCE_THRESHOLDS ==
    [STRONG |-> [num |-> 5, den |-> 10], MODERATE |-> [num |-> 2, den |-> 10]]

\* The literal 0.0001 of the two sort comparators.
SORT_EPSILON == [num |-> 1, den |-> 10000]

-----------------------------------------------------------------------------
(* The trait catalogue, in tenths, in the order the object literal lists it *)

ARCHETYPE_TRAIT_PROFILES ==
  << [id |-> "ostrich", awareness |-> 2, affect |-> 0, agency |-> 2, time |-> 0, relationality |-> 0, posture |-> 0],
     [id |-> "blissed-out-yogi", awareness |-> 9, affect |-> 8, agency |-> 5, time |-> 0, relationality |-> 0, posture |-> 0],
     [id |-> "illusionist", awareness |-> 5, affect |-> 0, agency |-> 9, time |-> 0, relationality |-> 10, posture |-> 10],
     [id |-> "normalizer", awareness |-> 2, affect |-> 0, agency |-> 5, time |-> 0, relationality |-> 10, posture |-> 0],
     [id |-> "prepper", awareness |-> 9, affect |-> 0, agency |-> 9, time |-> 10, relationality |-> 0, posture |-> 10],
     [id |-> "prophet-of-doom", awareness |-> 9, affect |-> -7, agency |-> 5, time |-> 10, relationality |-> 0, posture |-> 10],
     [id |-> "alt-right-collapse-bro", awareness |-> 5, affect |-> -7, agency |-> 9, time |-> 10, relationality |-> 10, posture |-> 10],
     [id |-> "evangelical-nationalist", awareness |-> 9, affect |-> 8, agency |-> 5, time |-> 10, relationality |-> 10, posture |-> 10],
     [id |-> "apocaloptimist", awareness |-> 9, affect |-> 8, agency |-> 9, time |-> 10, relationality |-> 0, posture |-> 10],
     [id |-> "trickster", awareness |-> 5, affect |-> 0, agency |-> 9, time |-> 0, relationality |-> 0, posture |-> 10],
     [id |-> "woke-lefty-socialist", awareness |-> 9, affect |-> -7, agency |-> 9, time |-> 10, relationality |-> 10, posture |-> 10],
     [id |-> "salvager", awareness |-> 5, affect |-> 0, agency |-> 9, time |-> 0, relationality |-> 0, posture |-> 10],
     [id |-> "sacred-keeper", awareness |-> 9, affect |-> 8, agency |-> 5, time |-> -10, relationality |-> 10, posture |-> 0],
     [id |-> "everyday-hustler", awareness |-> 5, affect |-> 0, agency |-> 9, time |-> 0, relationality |-> 0, posture |-> 10],
     [id |-> "already-collapsed", awareness |-> 9, affect |-> -7, agency |-> 2, time |-> 0, relationality |-> 0, posture |-> 0],
     [id |-> "extracted", awareness |-> 2, affect |-> 0, agency |-> 2, time |-> 0, relationality |-> 0, posture |-> 0],
     [id |-> "child-witness", awareness |-> 2, affect |-> 0, agency |-> 2, time |-> 0, relationality |-> 0, posture |-> 0],
     [id |-> "opportunist-elite", awareness |-> 9, affect |-> 0, agency |-> 9, time |-> 10, relationality |-> 0, posture |-> 10],
     [id |-> "conspiracy-theorist", awareness |-> 5, affect |-> -7, agency |-> 5, time |-> 0, relationality |-> 0, posture |-> 0] >>

CatalogueIds == {ARCHETYPE_TRAIT_PROFILES[i].id : i \in 1..Len(ARCHETYPE_TRAIT_PROFILES)}

\* ARCHETYPE_TRAIT_PROFILES[id] of an id the catalogue holds.
ProfileOf(id) ==
    ARCHETYPE_TRAIT_PROFILES[CHOOSE i \in 1..Len(ARCHETYPE_TRAIT_PROFILES) :
                                 ARCHETYPE_TRAIT_PROFILES[i].id = id]

\* An archetype id no catalogue entry carries (a "dynamic" archetype).
UncataloguedId == "doomsday-gardener"

\* Every id of the model in the order String.prototype.localeCompare gives.
IdsAscending ==
  << "already-collapsed", "alt-right-collapse-bro", "apocaloptimist",
     "blissed-out-yogi", "child-witness", "conspiracy-theorist",
     "doomsday-gardener", "evangelical-nationalist", "everyday-hustler",
     "extracted", "illusionist", "normalizer", "opportunist-elite", "ostrich",
     "prepper", "prophet-of-doom", "sacred-keeper", "salvager", "trickster",
     "woke-lefty-socialist" >>

IdRank(id) == CHOOSE i \in 1..Len(IdsAscending) : IdsAscending[i] = id

\* a.localeCompare(b): negative, zero or positive.
localeCompare(a, b) == IdRank(a) - IdRank(b)

-----------------------------------------------------------------------------
(* Score maps: JavaScript objects with string keys, which keep insertion order *)

Keys(m) == [i \in 1..Len(m) |-> m[i].id]

HasKey(m, id) == \E i \in 1..Len(m) : m[i].id = id

Get(m, id) == m[CHOOSE i \in 1..Len(m) : m[i].id = id].score

Values(m) == [i \in 1..Len(m) |-> m[i].score]

\* m[id] = v: overwrite in place, or append a new key.
Put(m, id, v) ==
    IF HasKey(m, id)
    THEN [i \in 1..Len(m) |-> IF m[i].id = id THEN [id |-> id, score |-> v] ELSE m[i]]
    ELSE Append(m, [id |-> id, score |-> v])

-----------------------------------------------------------------------------
(* Array.prototype.sort *)

InsertAt(p, k, x) == SubSeq(p, 1, k - 1) \o <<x>> \o SubSeq(p, k, Len(p))

(***************************************************************************)
(* The orders an insertion-based stable sort can leave the first n         *)
(* elements in, as sequences of their indices; inOrder holds the pairs     *)
(* <<i, j>> where element i may stand directly before element j (the       *)
(* comparator puts i first, or calls them equal and i came first).  With a *)
(* consistent comparator there is exactly one such order.  With an         *)
(* inconsistent one the language leaves the order to the implementation:   *)
(* each order below has every adjacent pair the way the comparator wants.  *)
(***************************************************************************)
RECURSIVE SortOrders(_, _)
SortOrders(n, inOrder) ==
    IF n = 0 THEN {<< >>}
    ELSE UNION { { InsertAt(p, k, n) :
                     k \in { j \in 1..n :
                               /\ (j = 1 \/ <<p[j - 1], n>> \in inOrder)
                               /\ (j = n \/ <<n, p[j]>> \in inOrder) } } :
                 p \in SortOrders(n - 1, inOrder) }

\* A JavaScript array with the elements of f: a sequence held by value.
Array(f) == SubSeq(f, 1, Len(f))

Permute(s, p) == Array([i \in 1..Len(s) |-> s[p[i]]])


-----------------------------------------------------------------------------
(* calculateArchetypeScores, scoring-engine.js lines 253-300 *)

\* Lines 255-258: a zero entry for every catalogued archetype.
InitialScores ==
    [i \in 1..Len(ARCHETYPE_TRAIT_PROFILES) |->
        [id |-> ARCHETYPE_TRAIT_PROFILES[i].id, score |-> 0]]

\* Lines 261-264, 268: questionMap[q.id] = q for each question in turn, so the
\* last question carrying an id is the one the map holds.  Ids are property
\* keys: strings.
HasQuestion(qs, qid) == \E i \in 1..Len(qs) : qs[i].id = qid

\* questionMap is an object literal: a key it does not hold itself is looked
\* up in Object.prototype, where "constructor" (like "toString", "valueOf",
\* ...) names a function: a truthy value that has no answers.
InheritedKeys == {"constructor"}

LookupQuestion(qs, qid) ==
    qs[SetMax({i \in 1..Len(qs) : qs[i].id = qid})]

\* Line 276: question.answers.find(a => a.id === response.answerId).
HasAnswer(q, aid) == \E i \in 1..Len(q.answers) : q.answers[i].id = aid

FindAnswer(q, aid) ==
    q.answers[SetMin({i \in 1..Len(q.answers) : q.answers[i].id = aid})]

\* A weight lookup that ignores the weight a question sets.
WeightOfIgnored(q) == WeightDen

\* Line 284 (and 461): the weight, 1.0 when the question sets none.  A weight
\* field is <<>> (absent) or <<w>>.
WeightOf(q) == IF q.weight = << >> THEN WeightDen ELSE q.weight[1]

\* An update that only adds to the entries the map already has.
RECURSIVE AddPointsKnownOnly(_, _, _)
AddPointsKnownOnly(m, weight, entries) ==
    IF Len(entries) = 0 THEN m
    ELSE LET e == Head(entries)
             m1 == IF HasKey(m, e.id)
                   THEN Put(m, e.id, Get(m, e.id) + weight * e.points)
                   ELSE m
         IN AddPointsKnownOnly(m1, weight, Tail(entries))

\* Lines 288-295: add weight * points for each entry of the point mapping.
RECURSIVE AddPoints(_, _, _)
AddPoints(m, weight, entries) ==
    IF Len(entries) = 0 THEN m
    ELSE LET e == Head(entries)
             m1 == IF HasKey(m, e.id)
                   THEN Put(m, e.id, Get(m, e.id) + weight * e.points)
                   ELSE Put(m, e.id, weight * e.points)
         IN AddPoints(m1, weight, Tail(entries))

\* A response the loop body processes: both of its ids resolve.
Resolves(qs, response) ==
    /\ HasQuestion(qs, response.questionId)
    /\ HasAnswer(LookupQuestion(qs, response.questionId), response.answerId)

(***************************************************************************)
(* Lines 267-297: the body of the forEach for one response.  The outcome   *)
(* is the score map after the response, or the error thrown: for a         *)
(* question id that finds an inherited property, line 276 calls find on    *)
(* the undefined answers of that value.                                    *)
(***************************************************************************)
ProcessResponse(m, qs, response) ==
    IF HasQuestion(qs, response.questionId)
    THEN LET question == LookupQuestion(qs, response.questionId) IN
         IF ~HasAnswer(question, response.answerId)
         THEN [error |-> "none", scores |-> m]                  \* warn, return
         ELSE [error |-> "none",
               scores |-> AddPoints(m, WeightOf(question),
                                    FindAnswer(question, response.answerId).archetypeScores)]
    ELSE IF response.questionId \in InheritedKeys
    THEN [error |-> "TypeError"]
    ELSE [error |-> "none", scores |-> m]                       \* warn, return

\* Line 267: userResponses.forEach, which ends at the first error thrown.
RECURSIVE Aggregate(_, _, _)
Aggregate(m, qs, responses) ==
    IF Len(responses) = 0 THEN [error |-> "none", scores |-> m]
    ELSE LET step == ProcessResponse(m, qs, Head(responses)) IN
         IF step.error # "none" THEN step
         ELSE Aggregate(step.scores, qs, Tail(responses))

\* The outcome of the call: [error |-> "none", scores |-> the map returned],
\* or the error thrown.
calculateArchetypeScores(qs, responses) == Aggregate(InitialScores, qs, responses)

-----------------------------------------------------------------------------
(* determineDominantArchetypes, scoring-engine.js lines 330-377 *)

\* A filter that drops the entries sitting exactly on the threshold.
AtLeastStrict(score, threshold) == score * threshold.den > threshold.num

\* score >= threshold, the threshold a ratio [num, den] of score units.
AtLeast(score, threshold) == score * threshold.den >= threshold.num

\* Lines 355-361: the comparator; negative puts a first.
CompareDominant(a, b) ==
    LET scoreDiff == b.score - a.score IN
    IF ScoreBelow(Abs(scoreDiff), SORT_EPSILON)
    THEN localeCompare(a.id, b.id)
    ELSE scoreDiff

DominantInOrder(entries) ==
    {<<i, j>> \in (1..Len(entries)) \X (1..Len(entries)) :
        \/ CompareDominant(entries[i], entries[j]) < 0
        \/ CompareDominant(entries[i], entries[j]) = 0 /\ i < j}

\* Line 355: dominantEntries.sort(...), every order the sort can leave.
SortDominant(entries) ==
    {Permute(entries, p) : p \in SortOrders(Len(entries), DominantInOrder(entries))}

\* A filter that also keeps the entries up to a tenth below the threshold.
FilterDominantLoose(m, threshold) ==
    SelectSeq(m, LAMBDA e : e.score * threshold.den * 10 >= threshold.num * 9)

\* Line 352: scoreEntries.filter(([_, score]) => score >= threshold).
FilterDominant(m, threshold) == SelectSeq(m, LAMBDA e : AtLeast(e.score, threshold))

\* The set of results the call can produce: one thrown error, or one result
\* per order the sort of line 355 can leave.
determineDominantArchetypes(m, tieTolerance) ==
    IF Len(m) = 0 THEN {[error |-> "NoScoresProvided"]}
    ELSE
    LET maxScore == SetMax(Range(Values(m)))
        minScore == SetMin(Range(Values(m)))
        variance == maxScore - minScore
    IN  IF ScoreBelow(variance, MINIMUM_VARIANCE) /\ maxScore = 0
        THEN {[error |-> "NoValidScores"]}
        ELSE
        LET threshold == [num |-> maxScore * (tieTolerance.den - tieTolerance.num),
                          den |-> tieTolerance.den]
        IN  { [error     |-> "none",
               dominant  |-> Keys(dominantEntries),
               scores    |-> dominantEntries,
               maxScore  |-> maxScore,
               threshold |-> threshold,
               hasTie    |-> Len(dominantEntries) > 1,
               variance  |-> variance] :
              dominantEntries \in SortDominant(FilterDominant(m, threshold)) }

-----------------------------------------------------------------------------
(* calculateConfidence, scoring-engine.js lines 402-445 *)

\* Lines 403-405: the positive entries, sorted by score descending; equal
\* scores keep their insertion order (the sort is stable), so the comparator
\* b[1] - a[1] leaves one order only.
ConfidenceInOrder(entries) ==
    {<<i, j>> \in (1..Len(entries)) \X (1..Len(entries)) :
        \/ entries[j].score - entries[i].score < 0
        \/ entries[j].score - entries[i].score = 0 /\ i < j}

SortByScore(entries) ==
    Permute(entries,
            CHOOSE p \in SortOrders(Len(entries), ConfidenceInOrder(entries)) : TRUE)

\* A comparison that leaves out the ratios sitting exactly on the limit.
RatioAbove(ratio, limit) == ratio.num * limit.den > limit.num * ratio.den

\* ratio >= limit for ratios [num, den] with positive denominators.
RatioAtLeast(ratio, limit) == ratio.num * limit.den >= limit.num * ratio.den

\* A filter that keeps the zero entries too.
NonNegativeEntries(m) == SelectSeq(m, LAMBDA e : e.score >= 0)

\* Line 404: .filter(([_, score]) => score > 0).
PositiveEntries(m) == SelectSeq(m, LAMBDA e : e.score > 0)

\* firstPlace and secondPlace are <<>> for null, <<id>> otherwise.
calculateConfidence(m) ==
    LET sortedEntries == SortByScore(PositiveEntries(m)) IN
    IF Len(sortedEntries) = 0
    THEN [score |-> [num |-> 0, den |-> 1], level |-> "NONE",
          firstPlace |-> << >>, secondPlace |-> << >>]
    ELSE IF Len(sortedEntries) = 1
    THEN [score |-> [num |-> 1, den |-> 1], level |-> "PERFECT",
          firstPlace |-> <<sortedEntries[1].id>>, secondPlace |-> << >>]
    ELSE
    LET firstScore == sortedEntries[1].score
        secondScore == sortedEntries[2].score
        confidenceScore == [num |-> firstScore - secondScore, den |-> firstScore]
        level == IF RatioAtLeast(confidenceScore, CONFIDENCE_THRESHOLDS.STRONG)
                 THEN "STRONG"
                 ELSE IF RatioAtLeast(confidenceScore, CONFIDENCE_THRESHOLDS.MODERATE)
                 THEN "MODERATE"
                 ELSE "WEAK"
    IN  [score |-> confidenceScore, level |-> level,
         firstPlace |-> <<sortedEntries[1].id>>,
         secondPlace |-> <<sortedEntries[2].id>>]

-----------------------------------------------------------------------------
(* normalizeScores, scoring-engine.js lines 458-475 *)

\* A total that counts the questions instead of summing their weights.
QuestionCount(qs) == Len(qs) * WeightDen

\* Lines 460-462: the sum of the weights, in 1/WeightDen.
TotalWeight(qs) == SeqSum([i \in 1..Len(qs) |-> WeightOf(qs[i])])

\* A normalized score is the ratio score / totalWeight: num in score units,
\* den in weight units.
normalizeScores(m, qs) ==
    LET totalWeight == TotalWeight(qs) IN
    IF totalWeight = 0 THEN [error |-> "ZeroTotalWeight"]
    ELSE [error |-> "none",
          normalizedScores |->
              [i \in 1..Len(m) |->
                  [id |-> m[i].id, num |-> m[i].score, den |-> totalWeight]]]

-----------------------------------------------------------------------------
(* Trait-space arithmetic, scoring-engine.js lines 490-529 and 592-635 *)

\* The six dimensions in the order lines 556-563 and 626-633 list them.
TraitVector(profile) ==
    <<profile.awareness, profile.affect, profile.agency, profile.time,
      profile.relationality, profile.posture>>

\* Line 608: ARCHETYPE_TRAIT_PROFILES[id] is truthy for the ids of the
\* catalogue and, the catalogue being an object literal, for the property
\* names every object inherits.
HasProfile(id) == id \in CatalogueIds \cup InheritedKeys

\* Lines 606-609: the entries that contribute, a positive score and a profile.
Contributing(m) == SelectSeq(m, LAMBDA e : e.score > 0 /\ HasProfile(e.id))

(***************************************************************************)
(* inferUserTraitVector: the six weighted averages, as numerators over one *)
(* common denominator.  The numerators are score units times tenths, the   *)
(* denominator is the total score times ten.  When nothing contributes the *)
(* vector is zero (line 621 skips the division).  An inherited property   *)
(* taken for a profile has no trait values: lines 612-617 add score *      *)
(* undefined, which is NaN, to each of the six sums, and nan says that     *)
(* every component of the result is NaN (num and den then say nothing).    *)
(***************************************************************************)
inferUserTraitVector(m) ==
    LET c == Contributing(m)
        known == SelectSeq(c, LAMBDA e : e.id \in CatalogueIds)
        totalScore == SeqSum([i \in 1..Len(c) |-> c[i].score])
    IN  [nan |-> Len(known) # Len(c),
         num |-> Array([k \in 1..6 |->
                     SeqSum([i \in 1..Len(known) |->
                                known[i].score
                                    * TraitVector(ProfileOf(known[i].id))[k]])]),
         den |-> IF totalScore > 0 THEN 10 * totalScore ELSE 10]

RECURSIVE Gcd(_, _)
Gcd(a, b) == IF b = 0 THEN a ELSE Gcd(b, a % b)

RECURSIVE SeqGcd(_)
SeqGcd(v) == IF Len(v) = 0 THEN 0 ELSE Gcd(Abs(Head(v)), SeqGcd(Tail(v)))

\* The same direction in the smallest integers.
Reduced(v) ==
    LET g == SeqGcd(v) IN
    IF g = 0 THEN v ELSE Array([i \in 1..Len(v) |-> v[i] \div g])

\* Line 491: the sum of squares; the norm is its square root.
SumOfSquares(v) == SeqSum([i \in 1..Len(v) |-> v[i] * v[i]])

\* Line 517: the dot product.
DotProduct(v1, v2) == SeqSum([i \in 1..Len(v1) |-> v1[i] * v2[i]])

\* The integer square root, by bisection: lo * lo <= n < hi * hi.
RECURSIVE IsqrtBetween(_, _, _)
IsqrtBetween(n, lo, hi) ==
    IF hi - lo <= 1 THEN lo
    ELSE LET mid == (lo + hi) \div 2 IN
         IF mid * mid <= n THEN IsqrtBetween(n, mid, hi)
         ELSE IsqrtBetween(n, lo, mid)

Isqrt(n) == IsqrtBetween(n, 0, 46341)

\* Similarities are held in binary fixed point with SimBits fraction bits.
SimBits == 20

SimDen == 2 ^ SimBits

\* floor(n * 2^bits / d) for n >= 0 and d > 0, one bit at a time.
RECURSIVE FixDiv(_, _, _)
FixDiv(n, d, bits) ==
    IF bits = 0 THEN n \div d
    ELSE (n \div d) * (2 ^ bits) + FixDiv((n % d) * 2, d, bits - 1)

\* dot / sqrt(q) is unchanged when dot doubles and q quadruples: q is brought
\* to at least 2^25 so that its integer square root has 13 bits or more.
RECURSIVE ScaledUp(_, _)
ScaledUp(dot, q) ==
    IF q >= 2 ^ 25 THEN [dot |-> dot, q |-> q] ELSE ScaledUp(2 * dot, 4 * q)

\* A similarity that is taken over the dimensions both vectors have, without
\* the check of lines 512-514.
CosineOverCommonLength(vector1, vector2) ==
    LET n == IF Len(vector1) < Len(vector2) THEN Len(vector1) ELSE Len(vector2)
        v1 == Reduced(SubSeq(vector1, 1, n))
        v2 == Reduced(SubSeq(vector2, 1, n))
        q == SumOfSquares(v1) * SumOfSquares(v2)
    IN  IF q = 0 THEN [error |-> "none", similarity |-> 0]
        ELSE LET s == ScaledUp(DotProduct(v1, v2), q)
                 r == Isqrt(s.q)
                 magnitude == FixDiv(Abs(s.dot) * 2 * r, r * r + s.q, SimBits)
             IN  [error |-> "none",
                  similarity |-> IF s.dot < 0 THEN -magnitude ELSE magnitude]

(***************************************************************************)
(* calculateCosineSimilarity.  The cosine does not change when a vector is *)
(* scaled by a positive number, so both vectors are taken in their         *)
(* smallest integers.  With q the product of the sums of squares, the      *)
(* quotient dot / sqrt(q) is computed with sqrt(q) taken as                *)
(* (r * r + q) / (2 * r), r the integer square root of q (one Newton step: *)
(* the relative error is below 2^-26), and cut to SimBits fraction bits.   *)
(***************************************************************************)
calculateCosineSimilarity(vector1, vector2) ==
    IF Len(vector1) # Len(vector2) THEN [error |-> "DimensionMismatch"]
    ELSE
    LET v1 == Reduced(vector1)
        v2 == Reduced(vector2)
        sumOfSquares1 == SumOfSquares(v1)
        sumOfSquares2 == SumOfSquares(v2)
    IN  IF sumOfSquares1 = 0 \/ sumOfSquares2 = 0
        THEN [error |-> "none", similarity |-> 0]
        ELSE
        LET s == ScaledUp(DotProduct(v1, v2), sumOfSquares1 * sumOfSquares2)
            r == Isqrt(s.q)
            magnitude == FixDiv(Abs(s.dot) * 2 * r, r * r + s.q, SimBits)
        IN  [error |-> "none",
             similarity |-> IF s.dot < 0 THEN -magnitude ELSE magnitude]

-----------------------------------------------------------------------------
(* breakTieWithTraits, scoring-engine.js lines 544-580 *)

\* Lines 549-568: one similarity per tied id, 0 for an id without a profile.
Similarities(tiedArchetypeIds, userTraitVector) ==
    Array([i \in 1..Len(tiedArchetypeIds) |->
        [archetypeId |-> tiedArchetypeIds[i],
         similarity |->
            IF tiedArchetypeIds[i] \notin CatalogueIds THEN 0
            ELSE calculateCosineSimilarity(
                     userTraitVector.num,
                     TraitVector(ProfileOf(tiedArchetypeIds[i]))).similarity]])

\* x < c for a similarity difference x >= 0 and a ratio c.
SimBelow(x, c) == x <= (c.num * SimDen - 1) \div c.den

\* Lines 571-577: the comparator; negative puts a first.
CompareSimilarity(a, b) ==
    LET simDiff == b.similarity - a.similarity IN
    IF SimBelow(Abs(simDiff), SORT_EPSILON)
    THEN localeCompare(a.archetypeId, b.archetypeId)
    ELSE simDiff

SimilarityInOrder(entries) ==
    {<<i, j>> \in (1..Len(entries)) \X (1..Len(entries)) :
        \/ CompareSimilarity(entries[i], entries[j]) < 0
        \/ CompareSimilarity(entries[i], entries[j]) = 0 /\ i < j}

\* Line 571: similarities.sort(...), every order the sort can leave.
SortSimilarities(entries) ==
    {Permute(entries, p) : p \in SortOrders(Len(entries), SimilarityInOrder(entries))}

\* A tie breaker that sorts the list it was handed instead of a copy.
breakTieSortingInPlace(tiedArchetypeIds, allScores) ==
    IF Len(tiedArchetypeIds) = 0 THEN {[error |-> "TypeError"]}
    ELSE { [error |-> "none",
            winner |-> similarities[1].archetypeId,
            tiedArchetypeIds |->
                [i \in 1..Len(similarities) |-> similarities[i].archetypeId],
            allScores |-> allScores] :
           similarities \in
               SortSimilarities(Similarities(tiedArchetypeIds,
                                             inferUserTraitVector(allScores))) }

(***************************************************************************)
(* The set of outcomes of the call: the id returned, with the two          *)
(* arguments as the call leaves them (similarities is a new array, so the  *)
(* sort touches neither).  similarities[0] of an empty list is undefined,  *)
(* and reading its archetypeId throws.                                     *)
(***************************************************************************)
breakTieWithTraits(tiedArchetypeIds, allScores) ==
    IF Len(tiedArchetypeIds) = 0 THEN {[error |-> "TypeError"]}
    ELSE { [error |-> "none",
            winner |-> similarities[1].archetypeId,
            tiedArchetypeIds |-> tiedArchetypeIds,
            allScores |-> allScores] :
           similarities \in
               SortSimilarities(Similarities(tiedArchetypeIds,
                                             inferUserTraitVector(allScores))) }

-----------------------------------------------------------------------------
(* Visualization support, scoring-engine.js lines 655-743 *)

\* A trait value of the catalogue, in tenths, as a ratio.
Tenths(v) == [num |-> v, den |-> 10]

(***************************************************************************)
(* calculateRadarChartCoordinates: per dimension the raw value and the     *)
(* radius, (value + 1) / 2 for affect and time (dimensions 2 and 4).  The  *)
(* argument is <<>> for undefined and <<values>> for a profile; line 667   *)
(* reads a property of the argument, which throws on undefined.  The       *)
(* angles and the x, y projections are not represented.                    *)
(***************************************************************************)
calculateRadarChartCoordinates(traitProfile) ==
    IF Len(traitProfile) = 0 THEN [error |-> "TypeError"]
    ELSE [error |-> "none",
          coordinates |->
              [k \in 1..6 |->
                  LET value == traitProfile[1][k] IN
                  [rawValue |-> value,
                   radius |-> IF k \in {2, 4}
                              THEN [num |-> value.num + value.den,
                                    den |-> 2 * value.den]
                              ELSE value]]]

\* calculateScoreDistribution: the percentage is the ratio score * 100 / total.
calculateScoreDistribution(m) ==
    LET totalScore == SeqSum(Values(m)) IN
    IF totalScore = 0
    THEN [i \in 1..Len(m) |->
             [id |-> m[i].id, score |-> 0, percentage |-> [num |-> 0, den |-> 1]]]
    ELSE LET sorted == SortByScore(m) IN
         [i \in 1..Len(sorted) |->
             [id |-> sorted[i].id, score |-> sorted[i].score,
              percentage |-> [num |-> sorted[i].score * 100, den |-> totalScore]]]

-----------------------------------------------------------------------------
(* scoreQuiz, scoring-engine.js lines 770-857 *)

\* dominant[0]: undefined when the list is empty, and undefined used as a
\* property key is the string "undefined".
FirstDominant(dominant) == IF Len(dominant) = 0 THEN "undefined" ELSE dominant[1]

\* A tie step that never consults the tie breaker.
ResolveTieFirst(dominantResult, m, opts) ==
    {[error |-> "none", winner |-> FirstDominant(dominantResult.dominant),
      tiedArchetypeIds |-> dominantResult.dominant, allScores |-> m]}

\* Lines 787-790: the primary archetype, with the list and the map as the
\* tie breaker leaves them.
ResolveTie(dominantResult, m, opts) ==
    IF dominantResult.hasTie /\ opts.breakTiesWithTraits
    THEN breakTieWithTraits(dominantResult.dominant, m)
    ELSE {[error |-> "none", winner |-> FirstDominant(dominantResult.dominant),
           tiedArchetypeIds |-> dominantResult.dominant, allScores |-> m]}

\* ARCHETYPE_TRAIT_PROFILES[id] as an argument: <<>> when there is no entry.
ProfileArgument(id) ==
    IF id \in CatalogueIds
    THEN << [k \in 1..6 |-> Tenths(TraitVector(ProfileOf(id))[k])] >>
    ELSE << >>

\* Lines 806-822: null (<<>>) when not requested.
Visualizations(m, userTraitVector, primaryArchetype, opts) ==
    IF ~opts.includeVisualizations THEN [error |-> "none", value |-> << >>]
    ELSE
    LET radarCoordinates ==
            calculateRadarChartCoordinates(
                << [k \in 1..6 |-> [num |-> userTraitVector.num[k],
                                    den |-> userTraitVector.den]] >>)
        primaryCoordinates ==
            calculateRadarChartCoordinates(ProfileArgument(primaryArchetype))
    IN  IF radarCoordinates.error # "none" THEN [error |-> radarCoordinates.error]
        ELSE IF primaryCoordinates.error # "none"
        THEN [error |-> primaryCoordinates.error]
        ELSE [error |-> "none",
              value |-> << [radarChart |-> radarCoordinates.coordinates,
                            scoreDistribution |-> calculateScoreDistribution(m),
                            primaryArchetypeRadar |->
                                primaryCoordinates.coordinates] >>]

\* Steps 5 to 8 for one outcome of the tie step.
Assemble(qs, responses, opts, dominantResult, tie) ==
    LET m == tie.allScores
        normalized == normalizeScores(m, qs)
        userTraitVector == inferUserTraitVector(m)
        visualizations == Visualizations(m, userTraitVector, tie.winner, opts)
    IN  IF normalized.error # "none" THEN [error |-> normalized.error]
        ELSE IF visualizations.error # "none" THEN [error |-> visualizations.error]
        ELSE [error |-> "none",
              primary |-> tie.winner,
              primaryScore |-> IF HasKey(m, tie.winner)
                               THEN <<Get(m, tie.winner)>> ELSE << >>,
              dominantArchetypes |-> tie.tiedArchetypeIds,
              dominantScores |-> dominantResult.scores,
              hasTie |-> dominantResult.hasTie,
              tieThreshold |-> dominantResult.threshold,
              allScores |-> m,
              normalizedScores |-> normalized.normalizedScores,
              maxScore |-> dominantResult.maxScore,
              variance |-> dominantResult.variance,
              confidence |-> calculateConfidence(m),
              userTraitVector |-> userTraitVector,
              visualizations |-> visualizations.value,
              questionsAnswered |-> Len(responses),
              totalQuestions |-> Len(qs),
              isComplete |-> Len(responses) = Len(qs)]

\* A scoreQuiz that keeps the tolerance of the call before it, as it would
\* with the tolerance held in a variable of the module: out.calls is the list
\* of the calls made so far.
scoreQuizKeepingTolerance(qs, responses, opts) ==
    LET used == IF Len(out.calls) = 0 THEN opts
                ELSE [opts EXCEPT !.tieTolerance =
                                      out.calls[Len(out.calls)].options.tieTolerance]
        aggregated == calculateArchetypeScores(qs, responses)
    IN  IF aggregated.error # "none" THEN {[error |-> aggregated.error]}
        ELSE UNION { IF dominantResult.error # "none"
                     THEN {[error |-> dominantResult.error]}
                     ELSE { IF tie.error # "none" THEN [error |-> tie.error]
                            ELSE Assemble(qs, responses, used, dominantResult, tie) :
                            tie \in ResolveTie(dominantResult, aggregated.scores, used) } :
                     dominantResult \in
                         determineDominantArchetypes(aggregated.scores,
                                                     used.tieTolerance) }

\* A scoreQuiz that normalizes (step 5) before it resolves dominance (step 2).
scoreQuizNormalizingFirst(qs, responses, opts) ==
    LET aggregated == calculateArchetypeScores(qs, responses) IN
    IF aggregated.error # "none" THEN {[error |-> aggregated.error]}
    ELSE IF normalizeScores(aggregated.scores, qs).error # "none"
    THEN {[error |-> normalizeScores(aggregated.scores, qs).error]}
    ELSE UNION { IF dominantResult.error # "none"
                 THEN {[error |-> dominantResult.error]}
                 ELSE { IF tie.error # "none" THEN [error |-> tie.error]
                        ELSE Assemble(qs, responses, opts, dominantResult, tie) :
                        tie \in ResolveTie(dominantResult, aggregated.scores, opts) } :
                 dominantResult \in
                     determineDominantArchetypes(aggregated.scores, opts.tieTolerance) }

\* The set of outcomes of scoreQuiz: a thrown error or a result record.
scoreQuiz(qs, responses, opts) ==
    LET aggregated == calculateArchetypeScores(qs, responses) IN
    IF aggregated.error # "none" THEN {[error |-> aggregated.error]}
    ELSE
    LET m == aggregated.scores IN
    UNION { IF dominantResult.error # "none"
            THEN {[error |-> dominantResult.error]}
            ELSE { IF tie.error # "none" THEN [error |-> tie.error]
                   ELSE Assemble(qs, responses, opts, dominantResult, tie) :
                   tie \in ResolveTie(dominantResult, m, opts) } :
            dominantResult \in determineDominantArchetypes(m, opts.tieTolerance) }

-----------------------------------------------------------------------------
(* The validators, scoring-engine.js lines 869-956 *)

(***************************************************************************)
(* The validators inspect values of any shape, so their arguments are held *)
(* as tagged values.  A list argument is [kind, items]: kind "array", or   *)
(* "string" for a non-empty string (truthy, not an array, without forEach  *)
(* or find), or "undefined".  An element is [kind |-> "null"] with filler  *)
(* fields, or an object; a field that may be absent is <<>> or <<value>>.  *)
(***************************************************************************)
ArrayOf(items) == [kind |-> "array", items |-> items]

SomeString == [kind |-> "string", items |-> << >>]

Undefined == [kind |-> "undefined", items |-> << >>]

\* Lines 893-900: the body of q.answers.forEach for one answer.
AnswerErrors(a) ==
    IF a.kind = "null" THEN [error |-> "TypeError"]
    ELSE [error |-> "none",
          errors |-> (IF a.id = << >> THEN <<"AnswerMissingId">> ELSE << >>)
                     \o (IF a.archetypeScores # "object"
                         THEN <<"AnswerMissingArchetypeScores">> ELSE << >>)]

\* Line 893: q.answers.forEach, which ends at the first error thrown.
RECURSIVE AnswersErrors(_, _)
AnswersErrors(items, errors) ==
    IF Len(items) = 0 THEN [error |-> "none", errors |-> errors]
    ELSE LET step == AnswerErrors(Head(items)) IN
         IF step.error # "none" THEN step
         ELSE AnswersErrors(Tail(items), errors \o step.errors)

\* Lines 882-901: the body of questions.forEach for one question.
QuestionErrors(q) ==
    IF q.kind = "null" THEN [error |-> "TypeError"]           \* q.id of null
    ELSE
    LET own == (IF q.id = << >> THEN <<"QuestionMissingId">> ELSE << >>)
               \o (IF q.text = << >> THEN <<"QuestionMissingText">> ELSE << >>)
               \o (IF q.answers.kind # "array" \/ Len(q.answers.items) = 0
                   THEN <<"QuestionNeedsAnswers">> ELSE << >>)
    IN  IF q.answers.kind = "undefined" THEN [error |-> "none", errors |-> own]
        ELSE IF q.answers.kind # "array"
        THEN [error |-> "TypeError"]                          \* no forEach
        ELSE AnswersErrors(q.answers.items, own)

RECURSIVE QuestionsErrors(_, _)
QuestionsErrors(items, errors) ==
    IF Len(items) = 0 THEN [error |-> "none", errors |-> errors]
    ELSE LET step == QuestionErrors(Head(items)) IN
         IF step.error # "none" THEN step
         ELSE QuestionsErrors(Tail(items), errors \o step.errors)

\* The record a validator returns.
Validation(errors) ==
    [error |-> "none", valid |-> Len(errors) = 0, errors |-> errors]

validateQuizData(qs) ==
    IF qs.kind # "array"
    THEN [error |-> "none", valid |-> FALSE, errors |-> <<"QuestionsNotArray">>]
    ELSE LET checked ==
                 QuestionsErrors(qs.items,
                                 IF Len(qs.items) = 0 THEN <<"NoQuestions">>
                                 ELSE << >>)
         IN  IF checked.error # "none" THEN checked ELSE Validation(checked.errors)

\* Line 935: questionMap[response.questionId] finds the last question that
\* was stored under the id.
OwnQuestions(items, qid) == {i \in 1..Len(items) : items[i].id = <<qid>>}

\* Line 941: question.answers.find(a => a.id === response.answerId), over an
\* array: found, not found, or a.id read of a null element.
RECURSIVE FindAnswerValue(_, _)
FindAnswerValue(items, aid) ==
    IF Len(items) = 0 THEN "notFound"
    ELSE IF Head(items).kind = "null" THEN "TypeError"
    ELSE IF Head(items).id = <<aid>> THEN "found"
    ELSE FindAnswerValue(Tail(items), aid)

\* A loop body that accepts any answer id of a known question.
ResponseErrorsAnyAnswer(items, response) ==
    IF response.kind = "null" THEN [error |-> "TypeError"]
    ELSE IF response.questionId = << >>
    THEN [error |-> "none", errors |-> <<"ResponseMissingQuestionId">>]
    ELSE IF response.answerId = << >>
    THEN [error |-> "none", errors |-> <<"ResponseMissingAnswerId">>]
    ELSE IF OwnQuestions(items, response.questionId[1]) = {}
    THEN [error |-> "none", errors |-> <<"UnknownQuestion">>]
    ELSE [error |-> "none", errors |-> << >>]

\* Lines 925-945: the body of userResponses.forEach for one response, items
\* the questions.
ResponseErrors(items, response) ==
    IF response.kind = "null" THEN [error |-> "TypeError"]
    ELSE IF response.questionId = << >>
    THEN [error |-> "none", errors |-> <<"ResponseMissingQuestionId">>]
    ELSE IF response.answerId = << >>
    THEN [error |-> "none", errors |-> <<"ResponseMissingAnswerId">>]
    ELSE
    LET own == OwnQuestions(items, response.questionId[1]) IN
    IF own = {}
    THEN IF response.questionId[1] \in InheritedKeys
         THEN [error |-> "TypeError"]          \* answers of an inherited value
         ELSE [error |-> "none", errors |-> <<"UnknownQuestion">>]
    ELSE
    LET question == items[SetMax(own)] IN
    IF question.answers.kind # "array" THEN [error |-> "TypeError"]  \* no find
    ELSE LET found == FindAnswerValue(question.answers.items, response.answerId[1])
         IN  IF found = "TypeError" THEN [error |-> "TypeError"]
             ELSE [error |-> "none",
                   errors |-> IF found = "found" THEN << >>
                              ELSE <<"UnknownAnswer">>]

RECURSIVE ResponsesErrors(_, _, _)
ResponsesErrors(items, responses, errors) ==
    IF Len(responses) = 0 THEN [error |-> "none", errors |-> errors]
    ELSE LET step == ResponseErrors(items, Head(responses)) IN
         IF step.error # "none" THEN step
         ELSE ResponsesErrors(items, Tail(responses), errors \o step.errors)

validateUserResponses(qs, responses) ==
    IF responses.kind # "array"
    THEN [error |-> "none", valid |-> FALSE, errors |-> <<"ResponsesNotArray">>]
    ELSE IF qs.kind # "array" THEN [error |-> "TypeError"]   \* no forEach
    ELSE IF \E i \in 1..Len(qs.items) : qs.items[i].kind = "null"
    THEN [error |-> "TypeError"]                             \* q.id of null
    ELSE LET checked == ResponsesErrors(qs.items, responses.items, << >>)
         IN  IF checked.error # "none" THEN checked ELSE Validation(checked.errors)

-----------------------------------------------------------------------------
(* The legacy state module (part_004) and quiz logic (src/js/quiz-logic.js) *)

\* part_004 lines 55-58: scores[archetype.id] = 0 for each archetype in turn.
RECURSIVE ZeroScores(_, _)
ZeroScores(m, archetypes) ==
    IF Len(archetypes) = 0 THEN m
    ELSE ZeroScores(Put(m, Head(archetypes), 0), Tail(archetypes))

\* part_004 lines 50-65.  Archetypes are held by their ids.
initializeState(quizData) ==
    [archetypes |-> quizData.archetypes,
     questions |-> quizData.questions,
     scores |-> ZeroScores(<< >>, quizData.archetypes),
     currentQuestionIndex |-> 0,
     responses |-> << >>,
     dominantArchetype |-> << >>]

\* part_004 lines 71-80.
resetQuiz(st) ==
    [st EXCEPT !.currentQuestionIndex = 0,
               !.responses = << >>,
               !.dominantArchetype = << >>,
               !.scores = [i \in 1..Len(st.scores) |-> [id |-> st.scores[i].id, score |-> 0]]]

\* Array.prototype.find on an id: <<>> when no element carries it, else the
\* first element that does.
FindById(items, id) ==
    LET found == {i \in 1..Len(items) : items[i].id = id} IN
    IF found = {} THEN << >> ELSE <<items[SetMin(found)]>>

\* part_004 lines 108-114: points are added to the archetypes the score map
\* has as its own keys, and to no other.
RECURSIVE AddOwnPoints(_, _)
AddOwnPoints(m, entries) ==
    IF Len(entries) = 0 THEN m
    ELSE LET e == Head(entries) IN
         AddOwnPoints(IF HasKey(m, e.id) THEN Put(m, e.id, Get(m, e.id) + e.points) ELSE m,
                      Tail(entries))

\* A recordAnswer that takes an answer it does not find for the first
\* answer of the question.
recordAnswerLenient(st, questionId, answerId) ==
    LET question == FindById(st.questions, questionId) IN
    IF question = << >> THEN st
    ELSE LET found == FindById(question[1].answers, answerId)
             answer == IF found = << >> THEN question[1].answers[1] ELSE found[1]
         IN  [st EXCEPT !.responses = Append(@, [questionId |-> questionId,
                                                 answerId |-> answerId]),
                        !.scores = AddOwnPoints(@, answer.archetypeScores),
                        !.currentQuestionIndex = @ + 1]

\* part_004 lines 89-118.
recordAnswer(st, questionId, answerId) ==
    LET question == FindById(st.questions, questionId) IN
    IF question = << >> THEN st
    ELSE LET answer == FindById(question[1].answers, answerId) IN
         IF answer = << >> THEN st
         ELSE [st EXCEPT !.responses = Append(@, [questionId |-> questionId,
                                                  answerId |-> answerId]),
                         !.scores = AddOwnPoints(@, answer[1].archetypeScores),
                         !.currentQuestionIndex = @ + 1]

\* part_004 lines 153-158: <<>> for null.
getCurrentQuestion(st) ==
    IF st.currentQuestionIndex >= Len(st.questions) THEN << >>
    ELSE <<st.questions[st.currentQuestionIndex + 1]>>

\* part_004 lines 212-214.
isQuizComplete(st) == st.currentQuestionIndex >= Len(st.questions)

\* quiz-logic.js lines 137-145: the entry that holds the running maximum
\* after the entries of the score map were visited in their order; <<>> is
\* the null of line 138 and maxScore starts at -1.
RECURSIVE DominantEntry(_, _, _)
DominantEntry(entries, maxScore, dominantArchetypeId) ==
    IF Len(entries) = 0 THEN dominantArchetypeId
    ELSE IF Head(entries).score > maxScore
    THEN DominantEntry(Tail(entries), Head(entries).score, <<Head(entries).id>>)
    ELSE DominantEntry(Tail(entries), maxScore, dominantArchetypeId)

\* quiz-logic.js lines 128-163: the archetype returned, or the error thrown.
\* Scores are in 1/PointDen.
calculateResult(st) ==
    IF Len(st.archetypes) = 0 THEN [error |-> "NoArchetypes"]
    ELSE LET found == DominantEntry(st.scores, -PointDen, << >>)
             dominantArchetypeId == IF found = << >> THEN st.archetypes[1] ELSE found[1]
         IN  IF \E i \in 1..Len(st.archetypes) : st.archetypes[i] = dominantArchetypeId
             THEN [error |-> "none", dominantArchetype |-> dominantArchetypeId]
             ELSE [error |-> "ArchetypeNotFound"]

\* quiz-logic.js lines 103-116: the state after the call, and the error it
\* threw if any (the answer is recorded before calculateResult can throw).
submitAnswer(st, questionId, answerId) ==
    LET recorded == recordAnswer(st, questionId, answerId) IN
    IF ~isQuizComplete(recorded) THEN [error |-> "none", state |-> recorded]
    ELSE LET result == calculateResult(recorded) IN
         IF result.error # "none" THEN [error |-> result.error, state |-> recorded]
         ELSE [error |-> "none",
               state |-> [recorded EXCEPT !.dominantArchetype =
                                              <<result.dominantArchetype>>]]

-----------------------------------------------------------------------------
(* Inputs of the direct calls on a score map *)

NoCall == [op |-> "none"]

DefaultOptions ==
    [tieTolerance |-> TIE_TOLERANCE, breakTiesWithTraits |-> TRUE,
     includeVisualizations |-> TRUE]

\* Tie tolerances in [0, 1): 0, the default 0.05, and 0.5.
Tolerances == {[num |-> 0, den |-> 100], TIE_TOLERANCE, [num |-> 50, den |-> 100]}

\* The ids of the engine's own tests, and scores of -2, -0.05, 0, 2, 4, 5 and
\* two scores 2 and 4 grid steps above 2.
DomIds == {"ostrich", "prepper", "apocaloptimist"}

ScoreValues ==
    {-2 * ScoreDen, -(ScoreDen \div 20), 0, 2 * ScoreDen, 2 * ScoreDen + 2,
     2 * ScoreDen + 4, 4 * ScoreDen, 5 * ScoreDen}

\* Every score map over some of DomIds, in every insertion order.
DomScoreMaps ==
    UNION { { m \in [1..n -> [id : DomIds, score : ScoreValues]] :
                \A i, j \in 1..n : i # j => m[i].id # m[j].id } :
            n \in 0..Cardinality(DomIds) }

InitDom ==
    /\ questions = << >>
    /\ userResponses = << >>
    /\ scores \in DomScoreMaps
    /\ options \in [tieTolerance : Tolerances, breakTiesWithTraits : {TRUE},
                    includeVisualizations : {TRUE}]
    /\ out = NoCall
    /\ ApplicationsNotLoaded

DetermineDominantArchetypes ==
    /\ \E r \in determineDominantArchetypes(scores, options.tieTolerance) :
          out' = [op |-> "determineDominantArchetypes", result |-> r]
    /\ UNCHANGED <<questions, userResponses, scores, options, state, QuizState, page>>

CalculateConfidence ==
    /\ out' = [op |-> "calculateConfidence", result |-> calculateConfidence(scores)]
    /\ UNCHANGED <<questions, userResponses, scores, options, state, QuizState, page>>

NextDom == DetermineDominantArchetypes \/ CalculateConfidence

SpecDom == InitDom /\ [][NextDom]_vars

-----------------------------------------------------------------------------
(* Quiz definitions and response lists *)

MaxResponses == 2

Points(n) == n * PointDen

\* Point mappings of an answer: Object.entries order.  The empty one stands
\* for an answer without archetypeScores as well.
PointMaps ==
    { << [id |-> "ostrich", points |-> Points(3)] >>,
      << [id |-> "prepper", points |-> Points(2)],
         [id |-> "prophet-of-doom", points |-> Points(2)] >>,
      << [id |-> UncataloguedId, points |-> Points(2)],
         [id |-> "ostrich", points |-> Points(-1)] >>,
      << >> }

\* Weights: none set (1.0 is used), or 1.5.
Weights == {<< >>, <<3 * (WeightDen \div 2)>>}

Question(id, weight, pointsA, pointsB) ==
    [id |-> id, weight |-> weight,
     answers |-> << [id |-> "a", archetypeScores |-> pointsA],
                    [id |-> "b", archetypeScores |-> pointsB] >>]

\* Quizzes of no, one and two questions, question ids unique.
Quizzes ==
    {<< >>}
    \cup { <<Question("1", w, pa, pb)>> : w \in Weights, pa \in PointMaps, pb \in PointMaps }
    \cup { <<Question("1", w1, pa, pb), Question("2", w2, pb, pa)>> :
             w1 \in Weights, w2 \in Weights, pa \in PointMaps, pb \in PointMaps }

\* Ids a response can carry: "9" and "constructor" name no question, "x" no
\* answer.
QuestionIds == {"1", "2", "9", "constructor"}

AnswerIds == {"a", "b", "x"}

InitAgg ==
    /\ questions \in Quizzes
    /\ userResponses = << >>
    /\ scores = << >>
    /\ options = DefaultOptions
    /\ out = NoCall
    /\ ApplicationsNotLoaded

\* The caller appends a response to the list it will hand over.
Respond ==
    /\ out = NoCall
    /\ Len(userResponses) < MaxResponses
    /\ \E qid \in QuestionIds, aid \in AnswerIds :
          userResponses' = Append(userResponses, [questionId |-> qid, answerId |-> aid])
    /\ UNCHANGED <<questions, scores, options, out, state, QuizState, page>>

CalculateArchetypeScores ==
    /\ out = NoCall
    /\ LET r == calculateArchetypeScores(questions, userResponses) IN
          /\ out' = [op |-> "calculateArchetypeScores", error |-> r.error]
          /\ scores' = IF r.error = "none" THEN r.scores ELSE scores
    /\ UNCHANGED <<questions, userResponses, options, state, QuizState, page>>

NextAgg == Respond \/ CalculateArchetypeScores

SpecAgg == InitAgg /\ [][NextAgg]_vars

-----------------------------------------------------------------------------
(* Direct calls of the tie breaker *)

MaxTied == 3

ScoreMap(pairs) ==
    [i \in 1..Len(pairs) |-> [id |-> pairs[i][1], score |-> pairs[i][2] * ScoreDen]]

\* Score maps handed to the tie breaker: the one of testBreakTieWithTraits,
\* one whose inferred vector lies between three profiles, one where nothing
\* contributes, and one with an uncatalogued archetype.
TieScoreMaps ==
    { ScoreMap(<< <<"ostrich", 5>>, <<"prepper", 5>>, <<"apocaloptimist", 10>> >>),
      ScoreMap(<< <<"apocaloptimist", 1>>, <<"child-witness", 5>>,
                  <<"conspiracy-theorist", 3>>, <<"sacred-keeper", 2>> >>),
      ScoreMap(<< <<"ostrich", 0>>, <<"prepper", 0>> >>),
      ScoreMap(<< <<UncataloguedId, 3>>, <<"ostrich", 3>> >>) }

TieIds ==
    {"conspiracy-theorist", "normalizer", "woke-lefty-socialist", "ostrich",
     "extracted", "prepper", UncataloguedId}

\* Tied lists: up to MaxTied distinct ids in any order.
TiedLists ==
    UNION { { t \in [1..n -> TieIds] : \A i, j \in 1..n : i # j => t[i] # t[j] } :
            n \in 0..MaxTied }

InitTie ==
    /\ questions = << >>
    /\ userResponses = << >>
    /\ scores \in TieScoreMaps
    /\ options = DefaultOptions
    /\ out = NoCall
    /\ ApplicationsNotLoaded

BreakTieWithTraits ==
    /\ out = NoCall
    /\ \E tied \in TiedLists :
          \E r \in breakTieWithTraits(tied, scores) :
             /\ out' = [op |-> "breakTieWithTraits", tiedArchetypeIds |-> tied,
                        result |-> r]
             /\ scores' = IF r.error = "none" THEN r.allScores ELSE scores
    /\ UNCHANGED <<questions, userResponses, options, state, QuizState, page>>

NextTie == BreakTieWithTraits

SpecTie == InitTie /\ [][NextTie]_vars

-----------------------------------------------------------------------------
(* The pipeline: a caller collects responses and calls scoreQuiz *)

\* Question 1 awards a pair of catalogued archetypes or an uncatalogued one;
\* question 2 awards a third archetype or the one question 1 takes from.
FirstQuestion(weight) ==
    Question("1", weight,
             << [id |-> "prepper", points |-> Points(2)],
                [id |-> "prophet-of-doom", points |-> Points(2)] >>,
             << [id |-> UncataloguedId, points |-> Points(2)],
                [id |-> "ostrich", points |-> Points(-1)] >>)

SecondQuestion ==
    Question("2", << >>,
             << [id |-> "conspiracy-theorist", points |-> Points(1)] >>,
             << [id |-> "ostrich", points |-> Points(3)] >>)

ScoredQuizzes ==
    {<< >>}
    \cup { <<FirstQuestion(w)>> : w \in Weights }
    \cup { <<FirstQuestion(w), SecondQuestion>> : w \in Weights }

Init ==
    /\ questions \in ScoredQuizzes
    /\ userResponses = << >>
    /\ scores = << >>
    /\ options \in [tieTolerance : {TIE_TOLERANCE, [num |-> 50, den |-> 100]},
                    breakTiesWithTraits : BOOLEAN,
                    includeVisualizations : BOOLEAN]
    /\ out = NoCall
    /\ ApplicationsNotLoaded

ScoreQuiz ==
    /\ out = NoCall
    /\ \E r \in scoreQuiz(questions, userResponses, options) :
          out' = [op |-> "scoreQuiz", result |-> r]
    /\ UNCHANGED <<questions, userResponses, scores, options, state, QuizState, page>>

Next == Respond \/ ScoreQuiz

Spec == Init /\ [][Next]_vars

-----------------------------------------------------------------------------
(* A caller that scores one quiz and one response list several times *)

MaxCalls == 3

\* Response lists over the two questions of ScoredQuizzes: none, one answer,
\* the pair that ties two archetypes, the pair that awards an uncatalogued one.
CallResponses ==
    { << >>,
      << [questionId |-> "1", answerId |-> "a"] >>,
      << [questionId |-> "1", answerId |-> "a"], [questionId |-> "2", answerId |-> "a"] >>,
      << [questionId |-> "1", answerId |-> "b"], [questionId |-> "2", answerId |-> "b"] >> }

InitCalls ==
    /\ questions \in ScoredQuizzes
    /\ userResponses \in CallResponses
    /\ scores = << >>
    /\ options \in [tieTolerance : {TIE_TOLERANCE}, breakTiesWithTraits : BOOLEAN,
                    includeVisualizations : BOOLEAN]
    /\ out = [op |-> "none", calls |-> << >>]
    /\ ApplicationsNotLoaded

\* One more call on the same quiz and responses, with a tolerance of its own;
\* out.calls lists the options and the outcome of every call so far.
ScoreQuizCall ==
    /\ Len(out.calls) < MaxCalls
    /\ \E tol \in Tolerances :
          LET opts == [options EXCEPT !.tieTolerance = tol] IN
          \E r \in scoreQuiz(questions, userResponses, opts) :
             out' = [op |-> "scoreQuiz",
                     calls |-> Append(out.calls, [options |-> opts, result |-> r])]
    /\ UNCHANGED <<questions, userResponses, scores, options, state, QuizState, page>>

NextCalls == ScoreQuizCall

SpecCalls == InitCalls /\ [][NextCalls]_vars

-----------------------------------------------------------------------------
(* Direct calls of the validators, on well-formed and malformed values *)

MaxValQuestions == 2

MaxValResponses == 2

AnswerValue(id, archetypeScores) ==
    [kind |-> "object", id |-> id, archetypeScores |-> archetypeScores]

NullAnswer == [kind |-> "null", id |-> << >>, archetypeScores |-> "undefined"]

QuestionValue(id, text, answers) ==
    [kind |-> "object", id |-> id, text |-> text, answers |-> answers]

NullQuestion == [kind |-> "null", id |-> << >>, text |-> << >>, answers |-> Undefined]

GoodAnswers == ArrayOf(<<AnswerValue(<<"a">>, "object"), AnswerValue(<<"b">>, "object")>>)

\* Two well-formed questions, and questions without id and text, without
\* answers, with a string for answers, with no answer, with a null answer,
\* with an answer that lacks its id and point mapping; and null.
QuestionValues ==
    { QuestionValue(<<"1">>, <<"text">>, GoodAnswers),
      QuestionValue(<<"2">>, <<"text">>, ArrayOf(<<AnswerValue(<<"a">>, "object")>>)),
      QuestionValue(<< >>, << >>, GoodAnswers),
      QuestionValue(<<"2">>, <<"text">>, Undefined),
      QuestionValue(<<"2">>, <<"text">>, SomeString),
      QuestionValue(<<"2">>, <<"text">>, ArrayOf(<< >>)),
      QuestionValue(<<"2">>, <<"text">>, ArrayOf(<<NullAnswer>>)),
      QuestionValue(<<"2">>, <<"text">>, ArrayOf(<<AnswerValue(<< >>, "undefined")>>)),
      NullQuestion }

ResponseValue(questionId, answerId) ==
    [kind |-> "object", questionId |-> questionId, answerId |-> answerId]

NullResponse == [kind |-> "null", questionId |-> << >>, answerId |-> << >>]

ResponseValues ==
    { ResponseValue(<<"1">>, <<"a">>), ResponseValue(<<"2">>, <<"a">>),
      ResponseValue(<<"1">>, <<"x">>), ResponseValue(<<"9">>, <<"a">>),
      ResponseValue(<<"constructor">>, <<"a">>),
      ResponseValue(<< >>, <<"a">>), ResponseValue(<<"1">>, << >>),
      NullResponse }

\* The lists of up to n elements of S.
ListsOf(S, n) == UNION {[1..k -> S] : k \in 0..n}

InitVal ==
    /\ questions \in {SomeString}
                      \cup {ArrayOf(q) : q \in ListsOf(QuestionValues, MaxValQuestions)}
    /\ userResponses \in {SomeString}
                          \cup {ArrayOf(r) : r \in ListsOf(ResponseValues, MaxValResponses)}
    /\ scores = << >>
    /\ options = DefaultOptions
    /\ out = NoCall
    /\ ApplicationsNotLoaded

ValidateQuizData ==
    /\ out = NoCall
    /\ out' = [op |-> "validateQuizData", result |-> validateQuizData(questions)]
    /\ UNCHANGED <<questions, userResponses, scores, options, state, QuizState, page>>

ValidateUserResponses ==
    /\ out = NoCall
    /\ out' = [op |-> "validateUserResponses",
               result |-> validateUserResponses(questions, userResponses)]
    /\ UNCHANGED <<questions, userResponses, scores, options, state, QuizState, page>>

NextVal == ValidateQuizData \/ ValidateUserResponses

SpecVal == InitVal /\ [][NextVal]_vars

-----------------------------------------------------------------------------
(* Direct calls of the functions of one score map *)

MaxMapSize == 3

MaxMapQuestions == 2

\* Two catalogued ids, an uncatalogued one, and one that names a property
\* every object inherits.
MapIds == {"ostrich", "prepper", UncataloguedId, "constructor"}

\* Scores of -2, 0, 2 and 3.
MapScores == {-2 * ScoreDen, 0, 2 * ScoreDen, 3 * ScoreDen}

\* Every score map of up to MaxMapSize of MapIds, in every insertion order.
MapScoreMaps ==
    UNION { { m \in [1..n -> [id : MapIds, score : MapScores]] :
                \A i, j \in 1..n : i # j => m[i].id # m[j].id } :
            n \in 0..MaxMapSize }

\* Weights: none set, 1.5, and 0.
MapWeights == Weights \cup {<<0>>}

\* Quizzes of up to MaxMapQuestions questions, of which only the weights
\* count here.
MapQuizzes ==
    { [i \in 1..Len(w) |-> Question(IF i = 1 THEN "1" ELSE "2", w[i], << >>, << >>)] :
        w \in ListsOf(MapWeights, MaxMapQuestions) }

InitMap ==
    /\ questions \in MapQuizzes
    /\ userResponses = << >>
    /\ scores \in MapScoreMaps
    /\ options = DefaultOptions
    /\ out = NoCall
    /\ ApplicationsNotLoaded

\* The argument is recorded as it was passed; no line of normalizeScores
\* assigns to a property of it.
NormalizeScores ==
    /\ out = NoCall
    /\ out' = [op |-> "normalizeScores", argument |-> scores,
               result |-> normalizeScores(scores, questions)]
    /\ UNCHANGED <<questions, userResponses, scores, options, state, QuizState, page>>

InferUserTraitVector ==
    /\ out = NoCall
    /\ out' = [op |-> "inferUserTraitVector", result |-> inferUserTraitVector(scores)]
    /\ UNCHANGED <<questions, userResponses, scores, options, state, QuizState, page>>

CalculateScoreDistribution ==
    /\ out = NoCall
    /\ out' = [op |-> "calculateScoreDistribution",
               result |-> calculateScoreDistribution(scores)]
    /\ UNCHANGED <<questions, userResponses, scores, options, state, QuizState, page>>

NextMap == NormalizeScores \/ InferUserTraitVector \/ CalculateScoreDistribution

SpecMap == InitMap /\ [][NextMap]_vars

-----------------------------------------------------------------------------
(* Direct calls of calculateCosineSimilarity *)

MaxDimensions == 3

\* Components of -0.1, 0, 0.1 and 0.2, in tenths.
Components == {-1, 0, 1, 2}

\* Vectors of no to MaxDimensions components.
Vectors == ListsOf(Components, MaxDimensions)

InitCos ==
    /\ questions = << >>
    /\ userResponses = << >>
    /\ scores = << >>
    /\ options = DefaultOptions
    /\ out = NoCall
    /\ ApplicationsNotLoaded

CalculateCosineSimilarity ==
    /\ out = NoCall
    /\ \E vector1 \in Vectors, vector2 \in Vectors :
          out' = [op |-> "calculateCosineSimilarity",
                  vector1 |-> vector1, vector2 |-> vector2,
                  result |-> calculateCosineSimilarity(vector1, vector2)]
    /\ UNCHANGED <<questions, userResponses, scores, options, state, QuizState, page>>

NextCos == CalculateCosineSimilarity

SpecCos == InitCos /\ [][NextCos]_vars

-----------------------------------------------------------------------------
(* scoreQuiz over a quiz with an answer that costs every archetype a point *)

\* A point mapping with -1 for each archetype of the catalogue.
PenaltyPoints ==
    [i \in 1..Len(ARCHETYPE_TRAIT_PROFILES) |->
        [id |-> ARCHETYPE_TRAIT_PROFILES[i].id, points |-> Points(-1)]]

PenaltyQuestion ==
    Question("1", << >>, PenaltyPoints, << [id |-> "ostrich", points |-> Points(3)] >>)

PenaltyQuizzes == {<<PenaltyQuestion>>, <<PenaltyQuestion, SecondQuestion>>}

InitPenalty ==
    /\ questions \in PenaltyQuizzes
    /\ userResponses = << >>
    /\ scores = << >>
    /\ options \in [tieTolerance : {TIE_TOLERANCE, [num |-> 50, den |-> 100]},
                    breakTiesWithTraits : BOOLEAN,
                    includeVisualizations : BOOLEAN]
    /\ out = NoCall
    /\ ApplicationsNotLoaded

NextPenalty == Respond \/ ScoreQuiz

SpecPenalty == InitPenalty /\ [][NextPenalty]_vars

-----------------------------------------------------------------------------
(* scoreQuiz over a quiz whose answers leave two archetypes close together *)

\* Answer a: 4 against 3.8, a gap of exactly 5%; answer b: 4 against 3.5.
NearQuestion(weight) ==
    Question("1", weight,
             << [id |-> "ostrich", points |-> Points(4)],
                [id |-> "prepper", points |-> (19 * PointDen) \div 5] >>,
             << [id |-> "ostrich", points |-> Points(4)],
                [id |-> "prepper", points |-> (7 * PointDen) \div 2] >>)

NearQuizzes ==
    { <<NearQuestion(w)>> : w \in Weights }
    \cup { <<NearQuestion(w), SecondQuestion>> : w \in Weights }

\* Tie tolerances of 0, 0.05, 0.15 and 0.5.
NearTolerances == Tolerances \cup {[num |-> 15, den |-> 100]}

\* The primary archetype is left to dominant[0]: neither the tie nor the
\* confidence depends on the tie breaker.
InitNear ==
    /\ questions \in NearQuizzes
    /\ userResponses = << >>
    /\ scores = << >>
    /\ options \in [tieTolerance : NearTolerances,
                    breakTiesWithTraits : {FALSE},
                    includeVisualizations : BOOLEAN]
    /\ out = NoCall
    /\ ApplicationsNotLoaded

NextNear == Respond \/ ScoreQuiz

SpecNear == InitNear /\ [][NextNear]_vars

-----------------------------------------------------------------------------
(* The legacy state module called directly (SpecState) *)

MaxRecorded == 3

LegacyQuestion1 ==
    Question("1", << >>,
             << [id |-> "ostrich", points |-> Points(2)],
                [id |-> "prepper", points |-> Points(1)] >>,
             << [id |-> "ostrich", points |-> Points(-2)],
                [id |-> "prepper", points |-> Points(-1)],
                [id |-> UncataloguedId, points |-> Points(3)] >>)

LegacyQuestion2 ==
    Question("2", << >>,
             << [id |-> "prepper", points |-> Points(1)] >>,
             << >>)

\* Quiz data files: archetypes by id in declaration order, and questions.
\* The third has no archetypes (line 51 of part_004 makes that []).
LegacyQuizData ==
    { [archetypes |-> <<"ostrich", "prepper">>,
       questions |-> <<LegacyQuestion1, LegacyQuestion2>>],
      [archetypes |-> <<"ostrich", "prepper">>,
       questions |-> <<LegacyQuestion1>>],
      [archetypes |-> << >>,
       questions |-> <<LegacyQuestion1>>] }

\* Ids a caller of recordAnswer can pass: "9" names no question, "x" no
\* answer.
LegacyQuestionIds == {"1", "2", "9"}

InitState ==
    /\ questions = << >>
    /\ userResponses = << >>
    /\ scores = << >>
    /\ options = DefaultOptions
    /\ out = NoCall
    /\ ApplicationsNotLoaded

InitializeState ==
    /\ \E quizData \in LegacyQuizData : state' = initializeState(quizData)
    /\ out' = [op |-> "initializeState", before |-> state]
    /\ UNCHANGED <<questions, userResponses, scores, options, QuizState, page>>

RecordAnswer ==
    /\ Len(state.responses) < MaxRecorded
    /\ \E questionId \in LegacyQuestionIds, answerId \in AnswerIds :
          /\ state' = recordAnswer(state, questionId, answerId)
          /\ out' = [op |-> "recordAnswer", before |-> state,
                     questionId |-> questionId, answerId |-> answerId]
    /\ UNCHANGED <<questions, userResponses, scores, options, QuizState, page>>

ResetQuiz ==
    /\ state' = resetQuiz(state)
    /\ out' = [op |-> "resetQuiz", before |-> state]
    /\ UNCHANGED <<questions, userResponses, scores, options, QuizState, page>>

\* quiz-logic.js calculateResult, with the setDominantArchetype of line 160.
CalculateResult ==
    /\ LET result == calculateResult(state) IN
          /\ out' = [op |-> "calculateResult", before |-> state, result |-> result]
          /\ state' = IF result.error = "none"
                      THEN [state EXCEPT !.dominantArchetype = <<result.dominantArchetype>>]
                      ELSE state
    /\ UNCHANGED <<questions, userResponses, scores, options, QuizState, page>>

NextState == InitializeState \/ RecordAnswer \/ ResetQuiz \/ CalculateResult

SpecState == InitState /\ [][NextState]_vars

-----------------------------------------------------------------------------
(* The legacy UI controller (part_005) over the state module (SpecUi) *)

MaxRetakes == 1

\* part_005 lines 120-144 with createAnswerButton (155-188): the container
\* is emptied and refilled, and one keydown listener per answer (up to four)
\* is added to the document; listeners stay until they fire.  `displayed`
\* counts the renderings, and every button and listener carries the number
\* of the rendering that made it.  The focus timer of line 142 changes
\* nothing recorded here.
displayQuestion(p, question) ==
    IF question = << >> THEN p
    ELSE LET q == question[1]
             d == p.displayed + 1
         IN  [p EXCEPT !.question = <<q.id>>,
                       !.displayed = d,
                       !.buttons = [i \in 1..Len(q.answers) |->
                                       [questionId |-> q.id, answerId |-> q.answers[i].id,
                                        disabled |-> FALSE, display |-> d]],
                       !.keyHandlers = @ \o
                           [i \in 1..(IF Len(q.answers) < 4 THEN Len(q.answers) ELSE 4) |->
                               [key |-> i, questionId |-> q.id,
                                answerId |-> q.answers[i].id, display |-> d]]]

\* part_005 lines 199-224 up to the setTimeout: every button now in the
\* container is disabled and the submission is queued (all delays are 300 ms,
\* so callbacks run in the order they were queued).
handleAnswerSelection(p, selection) ==
    [p EXCEPT !.buttons = [i \in 1..Len(@) |-> [@[i] EXCEPT !.disabled = TRUE]],
              !.timers = Append(@, [questionId |-> selection.questionId,
                                    answerId |-> selection.answerId,
                                    display |-> selection.display])]

RECURSIVE SelectAll(_, _)
SelectAll(p, selections) ==
    IF Len(selections) = 0 THEN p
    ELSE SelectAll(handleAnswerSelection(p, Head(selections)), Tail(selections))

\* part_005 lines 251-276: nothing is shown when there is no result.
showResults(p, st) ==
    IF st.dominantArchetype = << >> THEN p ELSE [p EXCEPT !.screen = "results"]

InitUi ==
    /\ questions = << >>
    /\ userResponses = << >>
    /\ scores = << >>
    /\ options = DefaultOptions
    /\ out = NoCall
    /\ state \in {initializeState(quizData) : quizData \in LegacyQuizData}
    /\ QuizState = EmptyQuizState
    /\ page = BlankPage

\* part_005 lines 342-347.
HandleStartQuiz ==
    /\ page.screen = "welcome"
    /\ page' = displayQuestion([page EXCEPT !.screen = "quiz"], getCurrentQuestion(state))
    /\ UNCHANGED <<questions, userResponses, scores, options, out, state, QuizState>>

\* A click on an answer button: the quiz screen is showing and the button is
\* not disabled.
ClickAnswer ==
    /\ page.screen = "quiz"
    /\ \E i \in 1..Len(page.buttons) :
          /\ ~page.buttons[i].disabled
          /\ page' = handleAnswerSelection(page, page.buttons[i])
    /\ UNCHANGED <<questions, userResponses, scores, options, out, state, QuizState>>

\* A press of a digit key: every document listener for that key runs, in
\* the order of registration, and removes itself.  The listeners are on the
\* document, so neither the screen nor a disabled button stops them.
KeyDown ==
    /\ \E key \in 1..2 :
          /\ \E i \in 1..Len(page.keyHandlers) : page.keyHandlers[i].key = key
          /\ page' = [SelectAll(page, SelectSeq(page.keyHandlers, LAMBDA h : h.key = key))
                        EXCEPT !.keyHandlers = SelectSeq(page.keyHandlers,
                                                         LAMBDA h : h.key # key)]
    /\ UNCHANGED <<questions, userResponses, scores, options, out, state, QuizState>>

\* The callback of part_005 lines 211-223.  `submitted` keeps, for every
\* call of submitAnswer, its arguments, the question in the container when
\* it was made and the rendering the selection came from.  When submitAnswer
\* throws the callback ends there.
TimerFires ==
    /\ Len(page.timers) > 0
    /\ LET t == Head(page.timers)
           r == submitAnswer(state, t.questionId, t.answerId)
           called == [page EXCEPT !.timers = Tail(@),
                                  !.submitted = Append(@, [questionId |-> t.questionId,
                                                           answerId |-> t.answerId,
                                                           display |-> t.display,
                                                           onDisplay |-> page.question])]
       IN  /\ state' = r.state
           /\ page' = IF r.error # "none" THEN called
                      ELSE IF isQuizComplete(r.state) THEN showResults(called, r.state)
                      ELSE displayQuestion(called, getCurrentQuestion(r.state))
    /\ UNCHANGED <<questions, userResponses, scores, options, out, QuizState>>

\* part_005 lines 353-356.
HandleRetakeQuiz ==
    /\ page.screen = "results"
    /\ page.retakes < MaxRetakes
    /\ state' = resetQuiz(state)
    /\ page' = [page EXCEPT !.screen = "welcome", !.retakes = @ + 1]
    /\ UNCHANGED <<questions, userResponses, scores, options, out, QuizState>>

NextUi == HandleStartQuiz \/ ClickAnswer \/ KeyDown \/ TimerFires \/ HandleRetakeQuiz

SpecUi == InitUi /\ [][NextUi]_vars

-----------------------------------------------------------------------------
(* The application of src/js/app.js over the scoring engine (SpecApp) *)

MaxSelections == 4

AppQuizData ==
    { [archetypes |-> <<"ostrich", "prepper", "prophet-of-doom">>,
       questions |-> <<Question("1", << >>,
                                << [id |-> "ostrich", points |-> Points(3)] >>,
                                << [id |-> "prepper", points |-> Points(2)],
                                   [id |-> "prophet-of-doom", points |-> Points(2)] >>),
                       Question("2", <<3 * (WeightDen \div 2)>>,
                                << [id |-> "prepper", points |-> Points(2)] >>,
                                << [id |-> UncataloguedId, points |-> Points(2)],
                                   [id |-> "ostrich", points |-> Points(-1)] >>)>>],
      [archetypes |-> <<"ostrich", "prepper">>,
       questions |-> <<Question("1", << >>,
                                << [id |-> "ostrich", points |-> Points(3)] >>,
                                << >>)>>] }

\* app.js lines 110-126: the state once the quiz data are loaded.
LoadedQuizState(quizData) ==
    [EmptyQuizState EXCEPT !.quizData = <<quizData>>,
                           !.scores = ZeroScores(<< >>, quizData.archetypes)]

\* app.js lines 268-272: scores[id] = (scores[id] || 0) + score, for every
\* archetype the answer names.
RECURSIVE AddScores(_, _)
AddScores(m, entries) ==
    IF Len(entries) = 0 THEN m
    ELSE LET e == Head(entries) IN
         AddScores(Put(m, e.id, (IF HasKey(m, e.id) THEN Get(m, e.id) ELSE 0) + e.points),
                   Tail(entries))

\* app.js lines 221-257: the buttons of the question at the current index;
\* nothing changes when there is none.  Each click listener holds the answer
\* it was made for.
AppDisplayQuestion(p, qs) ==
    LET qd == qs.quizData[1] IN
    IF qs.currentQuestionIndex >= Len(qd.questions) THEN p
    ELSE LET q == qd.questions[qs.currentQuestionIndex + 1]
             d == p.displayed + 1
         IN  [p EXCEPT !.question = <<q.id>>,
                       !.displayed = d,
                       !.buttons = [i \in 1..Len(q.answers) |->
                                       [questionId |-> q.id, answerId |-> q.answers[i].id,
                                        disabled |-> FALSE, display |-> d]]]

InitApp ==
    /\ questions = << >>
    /\ userResponses = << >>
    /\ scores = << >>
    /\ options = DefaultOptions
    /\ out = NoCall
    /\ state = EmptyState
    /\ QuizState \in {LoadedQuizState(quizData) : quizData \in AppQuizData}
    /\ page = BlankPage

\* app.js lines 194-219, from the start button or (retakeQuiz, lines 684-686)
\* from the retake button.  Dimensional scores are not held in this model.
StartQuiz ==
    /\ \/ page.screen = "welcome"
       \/ page.screen = "results" /\ page.retakes < MaxRetakes
    /\ LET started == [QuizState EXCEPT
                          !.currentQuestionIndex = 0,
                          !.responses = << >>,
                          !.scores = [i \in 1..Len(@) |-> [id |-> @[i].id, score |-> 0]]]
       IN  /\ QuizState' = started
           /\ page' = AppDisplayQuestion(
                          [page EXCEPT !.screen = "quiz",
                                       !.retakes = IF page.screen = "results"
                                                   THEN @ + 1 ELSE @],
                          started)
    /\ UNCHANGED <<questions, userResponses, scores, options, out, state>>

\* app.js lines 259-299 up to the setTimeout, run by a click on an answer
\* button of the quiz screen.  The buttons stay enabled.  With no question at
\* the current index line 263 throws before anything is stored.
SelectAnswer ==
    /\ page.screen = "quiz"
    /\ Len(QuizState.responses) < MaxSelections
    /\ QuizState.currentQuestionIndex < Len(QuizState.quizData[1].questions)
    /\ \E i \in 1..Len(page.buttons) :
          LET quizData == QuizState.quizData[1]
              question == quizData.questions[QuizState.currentQuestionIndex + 1]
              answer == FindById(FindById(quizData.questions,
                                          page.buttons[i].questionId)[1].answers,
                                 page.buttons[i].answerId)[1]
          IN  /\ QuizState' = [QuizState EXCEPT
                                  !.responses = Append(@, [questionId |-> question.id,
                                                           answerId |-> answer.id]),
                                  !.scores = AddScores(@, answer.archetypeScores)]
              /\ page' = [page EXCEPT !.timers = Append(@, [display |-> page.buttons[i].display])]
    /\ UNCHANGED <<questions, userResponses, scores, options, out, state>>

\* The callback of app.js lines 291-299 with showResults (320-334) and
\* calculateDominantArchetype (346-377).  An error thrown by scoreQuiz ends
\* the callback after the index was advanced.
AdvanceTimerFires ==
    /\ Len(page.timers) > 0
    /\ LET advanced == [QuizState EXCEPT !.currentQuestionIndex = @ + 1]
           popped == [page EXCEPT !.timers = Tail(@)]
           quizData == QuizState.quizData[1]
       IN  IF advanced.currentQuestionIndex < Len(quizData.questions)
           THEN /\ QuizState' = advanced
                /\ page' = AppDisplayQuestion(popped, advanced)
           ELSE \E result \in scoreQuiz(quizData.questions, advanced.responses,
                                         [tieTolerance |-> TIE_TOLERANCE,
                                          breakTiesWithTraits |-> TRUE,
                                          includeVisualizations |-> FALSE]) :
                  IF result.error # "none"
                  THEN /\ QuizState' = advanced
                       /\ page' = popped
                  ELSE /\ QuizState' = [advanced EXCEPT !.scoringResult = <<result>>]
                       /\ page' = IF \E a \in Range(quizData.archetypes) : a = result.primary
                                  THEN [popped EXCEPT !.screen = "results"]
                                  ELSE popped
    /\ UNCHANGED <<questions, userResponses, scores, options, out, state>>

NextApp == StartQuiz \/ SelectAnswer \/ AdvanceTimerFires

SpecApp == InitApp /\ [][NextApp]_vars

-----------------------------------------------------------------------------
(* The confidence codec of the share snapshot, part_006 (SpecCodec) *)

\* part_006 lines 19-23, as [key, value] pairs.
CONFIDENCE_LEVEL_CODES ==
    << <<"strong", "s">>, <<"moderate", "m">>, <<"low", "l">> >>

\* part_006 lines 25-29.
CONFIDENCE_CODE_LABELS ==
    << <<"s", "strong">>, <<"m", "moderate">>, <<"l", "low">> >>

\* table[key]: <<>> for undefined, <<value>> otherwise.
Property(table, key) ==
    LET found == {i \in 1..Len(table) : table[i][1] = key} IN
    IF found = {} THEN << >> ELSE <<table[SetMin(found)][2]>>

\* String.prototype.toLowerCase on the strings that occur: the level names
\* of the engine (scoring-engine.js lines 410, 419, 432-438).  Every other
\* string here is in lower case already.
toLowerCase(str) ==
    CASE str = "STRONG" -> "strong"
      [] str = "MODERATE" -> "moderate"
      [] str = "WEAK" -> "weak"
      [] str = "PERFECT" -> "perfect"
      [] str = "NONE" -> "none"
      [] OTHER -> str

\* Math.round of the ratio num / den, den > 0: the nearest integer, halves
\* upwards.
MathRound(num, den) == (2 * num + den) \div (2 * den)

\* part_006 lines 95-100, on an integer.
clampNumber(value, min, max) ==
    IF value < min THEN min ELSE IF value > max THEN max ELSE value

\* part_006 lines 102-114, for a confidence whose score is a number (a ratio)
\* and whose level is a non-empty string: the pair [score, levelCode].
encodeConfidence(confidence) ==
    LET code == Property(CONFIDENCE_LEVEL_CODES, toLowerCase(confidence.level)) IN
    [score |-> clampNumber(MathRound(100 * confidence.score.num, confidence.score.den),
                           0, 100),
     levelCode |-> IF code = << >> THEN "" ELSE code[1]]

\* part_006 lines 116-129, for a pair whose first element is a number: the
\* score in hundredths, and the level, <<>> for null.
decodeConfidence(value) ==
    [score |-> [num |-> clampNumber(value.score, 0, 100), den |-> 100],
     level |-> IF value.levelCode = "" THEN << >>
               ELSE Property(CONFIDENCE_CODE_LABELS, toLowerCase(value.levelCode))]

InitCodec ==
    /\ questions = << >>
    /\ userResponses = << >>
    /\ scores \in DomScoreMaps
    /\ options = DefaultOptions
    /\ out = NoCall
    /\ ApplicationsNotLoaded

\* The engine computes the confidence of the score map.
ComputeConfidence ==
    /\ out = NoCall
    /\ out' = [op |-> "calculateConfidence", confidence |-> calculateConfidence(scores)]
    /\ UNCHANGED <<questions, userResponses, scores, options, state, QuizState, page>>

EncodeConfidence ==
    /\ out.op = "calculateConfidence"
    /\ out' = [op |-> "encodeConfidence", confidence |-> out.confidence,
               value |-> encodeConfidence(out.confidence)]
    /\ UNCHANGED <<questions, userResponses, scores, options, state, QuizState, page>>

DecodeConfidence ==
    /\ out.op = "encodeConfidence"
    /\ out' = [op |-> "decodeConfidence", confidence |-> out.confidence,
               value |-> out.value, decoded |-> decodeConfidence(out.value)]
    /\ UNCHANGED <<questions, userResponses, scores, options, state, QuizState, page>>

NextCodec == ComputeConfidence \/ EncodeConfidence \/ DecodeConfidence

SpecCodec == InitCodec /\ [][NextCodec]_vars

-----------------------------------------------------------------------------
(* Claims about calculateArchetypeScores (SpecAgg) *)

ScoresReturned == out.op = "calculateArchetypeScores" /\ out.error = "none"

ResolvedResponses == SelectSeq(userResponses, LAMBDA r : Resolves(questions, r))

\* weight * points summed over the point mapping of the answer r selects.
Awarded(r) ==
    LET q == CHOOSE x \in Range(questions) : x.id = r.questionId
        a == CHOOSE x \in Range(q.answers) : x.id = r.answerId
        w == IF q.weight = << >> THEN WeightDen ELSE q.weight[1]
    IN  SeqSum([i \in 1..Len(a.archetypeScores) |-> w * a.archetypeScores[i].points])

C5_UnresolvedSkipped ==
    out.op = "calculateArchetypeScores" =>
        /\ out.error = "none"
        /\ scores = calculateArchetypeScores(questions, ResolvedResponses).scores

\* The archetype ids in the point mapping of the answer r selects.
AwardedIds(r) ==
    LET q == CHOOSE x \in Range(questions) : x.id = r.questionId
        a == CHOOSE x \in Range(q.answers) : x.id = r.answerId
    IN  {a.archetypeScores[i].id : i \in 1..Len(a.archetypeScores)}

ProcessedIds == UNION {AwardedIds(ResolvedResponses[i]) : i \in 1..Len(ResolvedResponses)}

-----------------------------------------------------------------------------
(* Claims about determineDominantArchetypes and calculateConfidence (SpecDom) *)

DominantReturned ==
    /\ out.op = "determineDominantArchetypes"
    /\ out.result.error = "none"

MaxOf(m) == SetMax({m[i].score : i \in 1..Len(m)})

\* C1: for a non-empty score map and a tolerance in [0, 1), negative scores
\* included, determineDominantArchetypes either raises the no-valid-scores
\* error or returns a non-empty dominant list holding every archetype whose
\* score is the maximum.
C1_DominantHoldsMaximum ==
    (out.op = "determineDominantArchetypes" /\ Len(scores) > 0) =>
        \/ out.result.error = "NoValidScores"
        \/ /\ out.result.error = "none"
           /\ Len(out.result.dominant) > 0
           /\ \A i \in 1..Len(scores) :
                 scores[i].score = MaxOf(scores) =>
                     scores[i].id \in Range(out.result.dominant)

C4_NoValidScoresIffAllZero ==
    (out.op = "determineDominantArchetypes" /\ Len(scores) > 0) =>
        (out.result.error = "NoValidScores"
            <=> \A i \in 1..Len(scores) : scores[i].score = 0)

\* C9: the dominant list is totally ordered, by score descending, with scores
\* within 0.0001 of each other by ascending id, so that score maps holding the
\* same entries in different insertion orders yield the same dominant
\* sequence.
C9_DominantOrderTotal ==
    DominantReturned =>
        LET d == out.result.scores IN
        /\ \A i, j \in 1..Len(d) :
              i < j =>
                 IF ScoreBelow(Abs(d[i].score - d[j].score), SORT_EPSILON)
                 THEN IdRank(d[i].id) < IdRank(d[j].id)
                 ELSE d[i].score > d[j].score
        /\ \A m \in {x \in DomScoreMaps : Range(x) = Range(scores)} :
              determineDominantArchetypes(m, options.tieTolerance) = {out.result}

ConfidenceReturned == out.op = "calculateConfidence"

PositiveScores(m) == {i \in 1..Len(m) : m[i].score > 0}

\* The largest and the second largest positive score, counted with
\* multiplicity (two entries at the top score make them equal).
FirstOf(m) == SetMax({m[i].score : i \in PositiveScores(m)})

SecondOf(m) ==
    LET top == CHOOSE i \in PositiveScores(m) : m[i].score = FirstOf(m)
    IN  SetMax({m[i].score : i \in PositiveScores(m) \ {top}})

\* C10: calculateConfidence returns score 0, level NONE and no first or second
\* place when no entry is strictly positive; score exactly 1, level PERFECT and
\* no second place when exactly one is; otherwise (first - second) / first,
\* which lies in [0, 1], first and second being the two largest positive scores.
C10_ConfidenceCases ==
    ConfidenceReturned =>
        LET c == out.result
            n == Cardinality(PositiveScores(scores))
        IN  /\ n = 0 => /\ c.score.num = 0
                        /\ c.level = "NONE"
                        /\ c.firstPlace = << >>
                        /\ c.secondPlace = << >>
            /\ n = 1 => /\ c.score.num = c.score.den
                        /\ c.level = "PERFECT"
                        /\ c.secondPlace = << >>
            /\ n >= 2 => /\ c.score.num = FirstOf(scores) - SecondOf(scores)
                         /\ c.score.den = FirstOf(scores)
                         /\ c.score.den > 0
                         /\ 0 <= c.score.num
                         /\ c.score.num <= c.score.den

\* The three cases of C10 are all reached; the witness is the third, with a
\* first and second place that differ.
C10_Witness ==
    /\ ConfidenceReturned
    /\ Cardinality(PositiveScores(scores)) >= 2
    /\ FirstOf(scores) = 5 * ScoreDen
    /\ SecondOf(scores) = 2 * ScoreDen
    /\ out.result.score = [num |-> 3 * ScoreDen, den |-> 5 * ScoreDen]

-----------------------------------------------------------------------------
(* Claims about breakTieWithTraits (SpecTie) *)

TieReturned == out.op = "breakTieWithTraits" /\ out.result.error = "none"

\* The candidates within 0.0001 of the maximal similarity, sims the
\* similarities of the candidates.
TopCandidates(sims) ==
    LET maxSimilarity == SetMax({sims[i].similarity : i \in 1..Len(sims)}) IN
    {sims[i].archetypeId :
       i \in {j \in 1..Len(sims) :
                SimBelow(maxSimilarity - sims[j].similarity, SORT_EPSILON)}}

(***************************************************************************)
(* C7: breakTieWithTraits returns a member of the tied list whose          *)
(* similarity to the inferred user vector is maximal (0 for a candidate    *)
(* without a profile), and among the candidates that tie for the maximum   *)
(* within 0.0001 it returns the one with the smallest id.                  *)
(***************************************************************************)
C7_TieBreakReturnsMaximal ==
    TieReturned =>
        LET top == TopCandidates(Similarities(out.tiedArchetypeIds,
                                              inferUserTraitVector(scores)))
        IN  /\ out.result.winner \in top
            /\ \A id \in top : localeCompare(out.result.winner, id) <= 0

-----------------------------------------------------------------------------
(* Claims about scoreQuiz (Spec) *)

QuizReturned == out.op = "scoreQuiz" /\ out.result.error = "none"

(***************************************************************************)
(* C6: a missing trait profile is never fatal: scoreQuiz with default      *)
(* options completes without a type error, and so does breakTieWithTraits  *)
(* on the dominant list, also when an archetype without a profile is in    *)
(* the dominant list or becomes the primary archetype.                     *)
(***************************************************************************)
C6_MissingProfileNeverFatal ==
    /\ out.op = "scoreQuiz"
    /\ options = DefaultOptions
    /\ calculateArchetypeScores(questions, userResponses).error = "none"
    =>  /\ out.result.error # "TypeError"
        /\ \A d \in determineDominantArchetypes(
                        calculateArchetypeScores(questions, userResponses).scores,
                        options.tieTolerance) :
              d.error = "none" /\ d.hasTie =>
                  \A t \in breakTieWithTraits(d.dominant,
                              calculateArchetypeScores(questions, userResponses).scores) :
                      t.error = "none"

\* The dominance fields of a result.
DominanceOf(r) == <<r.dominantArchetypes, r.dominantScores, r.hasTie, r.tieThreshold>>

DominanceResults(opts) ==
    {DominanceOf(r) :
       r \in {x \in scoreQuiz(questions, userResponses, opts) : x.error = "none"}}

(***************************************************************************)
(* C8: tie breaking and the later stages leave the score map and the       *)
(* dominant set alone: allScores of a result is the map                    *)
(* calculateArchetypeScores gives for the same inputs, the dominance       *)
(* fields are those determineDominantArchetypes gives for that map, and    *)
(* they are the same with breakTiesWithTraits true and false.              *)
(***************************************************************************)
C8_TieBreakLeavesScoresAndDominance ==
    QuizReturned =>
        /\ out.result.allScores =
              calculateArchetypeScores(questions, userResponses).scores
        /\ DominanceOf(out.result) \in
              {<<d.dominant, d.scores, d.hasTie, d.threshold>> :
                 d \in {x \in determineDominantArchetypes(
                                  calculateArchetypeScores(questions, userResponses).scores,
                                  options.tieTolerance) : x.error = "none"}}
        /\ LET flipped == [options EXCEPT !.breakTiesWithTraits = ~@] IN
           DominanceResults(flipped) # {} =>
               DominanceResults(flipped) = DominanceResults(options)

\* The tie breaker ran and chose another archetype than the first dominant.
C8_Witness ==
    /\ QuizReturned
    /\ options.breakTiesWithTraits
    /\ out.result.hasTie
    /\ out.result.primary # out.result.dominantArchetypes[1]
    /\ Len(userResponses) = 2

-----------------------------------------------------------------------------
(* More claims about calculateConfidence (SpecDom) *)

\* The score of id in the score map of the state.
ScoreOfId(id) == scores[CHOOSE i \in 1..Len(scores) : scores[i].id = id].score

(***************************************************************************)
(* C11: with two or more strictly positive entries, calculateConfidence    *)
(* reports STRONG exactly when the confidence score is at least 0.5,       *)
(* MODERATE exactly when it is at least 0.2 and below 0.5, WEAK otherwise, *)
(* and firstPlace and secondPlace are two different archetypes holding the *)
(* highest and the second highest positive score.                          *)
(***************************************************************************)
C11_ConfidenceLevels ==
    ConfidenceReturned /\ Cardinality(PositiveScores(scores)) >= 2 =>
        LET c == out.result
            atLeastHalf == 2 * c.score.num >= c.score.den
            atLeastFifth == 5 * c.score.num >= c.score.den
        IN  /\ c.level = "STRONG" <=> atLeastHalf
            /\ c.level = "MODERATE" <=> (atLeastFifth /\ ~atLeastHalf)
            /\ c.level = "WEAK" <=> ~atLeastFifth
            /\ Len(c.firstPlace) = 1 /\ Len(c.secondPlace) = 1
            /\ c.firstPlace[1] # c.secondPlace[1]
            /\ ScoreOfId(c.firstPlace[1]) = FirstOf(scores)
            /\ ScoreOfId(c.secondPlace[1]) = SecondOf(scores)

\* Scores 5 and 4 among three entries: the confidence is exactly 0.2.
C11_Witness ==
    /\ ConfidenceReturned
    /\ Len(scores) = 3
    /\ out.result.score = [num |-> ScoreDen, den |-> 5 * ScoreDen]
    /\ out.result.level = "MODERATE"
    /\ out.result.firstPlace # out.result.secondPlace

-----------------------------------------------------------------------------
(* More claims about scoreQuiz (Spec) *)

(***************************************************************************)
(* C12: in a scoreQuiz result, primary is the first element of             *)
(* dominantArchetypes when breakTiesWithTraits is false or the dominant    *)
(* set has one member; with breakTiesWithTraits true and several members   *)
(* it is the winner breakTieWithTraits returns for that dominant set, and  *)
(* dominantArchetypes still lists every archetype at or above the tie      *)
(* threshold.                                                              *)
(***************************************************************************)
C12_PrimaryResolution ==
    QuizReturned =>
        LET r == out.result
            several == Len(r.dominantArchetypes) > 1
        IN  /\ (~options.breakTiesWithTraits \/ ~several) =>
                  r.primary = r.dominantArchetypes[1]
            /\ (options.breakTiesWithTraits /\ several) =>
                  r.primary \in
                      {t.winner : t \in breakTieWithTraits(r.dominantArchetypes,
                                                           r.allScores)}
            /\ Range(r.dominantArchetypes) =
                  {r.allScores[i].id :
                     i \in {j \in 1..Len(r.allScores) :
                              r.allScores[j].score * r.tieThreshold.den
                                  >= r.tieThreshold.num}}

\* A three-way tie that the tie breaker resolves to another archetype than
\* the first of the dominant list.
C12_Witness ==
    /\ QuizReturned
    /\ options.breakTiesWithTraits
    /\ Len(out.result.dominantArchetypes) = 3
    /\ out.result.primary # out.result.dominantArchetypes[1]

-----------------------------------------------------------------------------
(* Claims about repeated scoreQuiz calls (SpecCalls) *)

-----------------------------------------------------------------------------
(* Claims about the validators (SpecVal) *)

ValidatorCalled == out.op \in {"validateQuizData", "validateUserResponses"}

(***************************************************************************)
(* C14: validateQuizData and validateUserResponses never raise: for any    *)
(* input, malformed questions and responses included, they return a record *)
(* with a valid flag and an errors list, and valid is true exactly when    *)
(* the errors list is empty.                                               *)
(***************************************************************************)
C14_ValidatorsNeverRaise ==
    ValidatorCalled =>
        /\ out.result.error = "none"
        /\ out.result.valid <=> out.result.errors = << >>

\* A quiz every question of which has an id, a text and a non-empty array of
\* answers that each have an id and a point mapping.
WellFormedQuiz(qs) ==
    /\ qs.kind = "array"
    /\ Len(qs.items) > 0
    /\ \A i \in 1..Len(qs.items) :
          LET q == qs.items[i] IN
          /\ q.kind = "object" /\ q.id # << >> /\ q.text # << >>
          /\ q.answers.kind = "array" /\ Len(q.answers.items) > 0
          /\ \A j \in 1..Len(q.answers.items) :
                LET a == q.answers.items[j] IN
                a.kind = "object" /\ a.id # << >> /\ a.archetypeScores = "object"

\* The quiz as calculateArchetypeScores takes it (the point mappings, which
\* the validators do not look into, left empty).
AsQuiz(qs) ==
    [i \in 1..Len(qs.items) |->
        [id |-> qs.items[i].id[1], weight |-> << >>,
         answers |-> [j \in 1..Len(qs.items[i].answers.items) |->
                         [id |-> qs.items[i].answers.items[j].id[1],
                          archetypeScores |-> << >>]]]]

\* A response the aggregator would process rather than skip.
Processed(qs, r) ==
    /\ r.kind = "object" /\ r.questionId # << >> /\ r.answerId # << >>
    /\ Resolves(AsQuiz(qs), [questionId |-> r.questionId[1], answerId |-> r.answerId[1]])

(***************************************************************************)
(* C15: for a non-empty response list over a well-formed quiz,             *)
(* validateUserResponses returns valid = true exactly when the question id *)
(* and the answer id of every response resolve, that is, when              *)
(* calculateArchetypeScores would skip none of the responses.              *)
(***************************************************************************)
C15_ValidResponsesResolve ==
    /\ out.op = "validateUserResponses"
    /\ WellFormedQuiz(questions)
    /\ userResponses.kind = "array"
    /\ Len(userResponses.items) > 0
    =>  ((out.result.error = "none" /\ out.result.valid) <=>
            \A i \in 1..Len(userResponses.items) :
                Processed(questions, userResponses.items[i]))

\* Two responses that resolve over a quiz of two questions are accepted.
C15_Witness ==
    /\ out.op = "validateUserResponses"
    /\ WellFormedQuiz(questions)
    /\ Len(questions.items) = 2
    /\ userResponses.kind = "array"
    /\ Len(userResponses.items) = 2
    /\ userResponses.items[1] # userResponses.items[2]
    /\ out.result.error = "none"
    /\ out.result.valid

-----------------------------------------------------------------------------
(* Claims about the functions of one score map (SpecMap) *)

\* The weight a question counts with, in 1/WeightDen: its own, or 1.0.
CountedWeight(q) == IF q.weight = << >> THEN WeightDen ELSE q.weight[1]

WeightSum == SeqSum([i \in 1..Len(questions) |-> CountedWeight(questions[i])])

(***************************************************************************)
(* C16: normalizeScores returns a map with the keys of its input in which  *)
(* every value is the input score divided by the sum of the weights of all *)
(* questions, an absent weight counting as 1.0; it raises an error exactly *)
(* when that sum is zero; and it leaves its input unchanged.               *)
(***************************************************************************)
C16_NormalizedByTotalWeight ==
    out.op = "normalizeScores" =>
        /\ scores = out.argument
        /\ (out.result.error # "none") <=> (WeightSum = 0)
        /\ out.result.error = "none" =>
              LET n == out.result.normalizedScores IN
              /\ Len(n) = Len(scores)
              /\ \A i \in 1..Len(n) :
                    /\ n[i].id = scores[i].id
                    /\ n[i].den # 0
                    /\ n[i].num * WeightSum = scores[i].score * n[i].den

\* Three scores divided by 1.0 + 1.5.
C16_Witness ==
    /\ out.op = "normalizeScores"
    /\ out.result.error = "none"
    /\ WeightSum = 5 * (WeightDen \div 2)
    /\ Len(out.result.normalizedScores) = 3
    /\ \E i \in 1..3 : out.result.normalizedScores[i].num < 0
    /\ \E i \in 1..3 : out.result.normalizedScores[i].num > 0

\* The archetypes the average is over: a strictly positive score and a
\* profile in the catalogue.
Qualifying == SelectSeq(scores, LAMBDA e : e.score > 0 /\ e.id \in CatalogueIds)

(***************************************************************************)
(* C17: inferUserTraitVector returns, for each of the six dimensions, the  *)
(* sum of score x trait value divided by the sum of scores, both over      *)
(* exactly the archetypes with a strictly positive score and a catalogued  *)
(* profile; every other archetype contributes nothing; and the result is   *)
(* the zero vector when no archetype qualifies.                            *)
(***************************************************************************)
C17_WeightedTraitAverage ==
    out.op = "inferUserTraitVector" =>
        LET total == SeqSum([i \in 1..Len(Qualifying) |-> Qualifying[i].score])
            g == Gcd(out.result.den, 10 * total)
        IN
        /\ ~out.result.nan
        /\ \A k \in 1..6 :
              IF Len(Qualifying) = 0
              THEN out.result.num[k] = 0
              ELSE out.result.num[k] * ((10 * total) \div g) =
                      (out.result.den \div g)
                        * SeqSum([i \in 1..Len(Qualifying) |->
                                     Qualifying[i].score
                                       * TraitVector(ProfileOf(Qualifying[i].id))[k]])

(***************************************************************************)
(* C18: calculateScoreDistribution returns one entry per archetype of the  *)
(* score map, each with the raw score of that archetype and its percentage *)
(* of the sum of all scores (0 for every archetype when the sum is zero),  *)
(* and in every case the entries are ordered by raw score, descending.     *)
(***************************************************************************)
C18_DistributionByRawScore ==
    out.op = "calculateScoreDistribution" =>
        LET total == SeqSum(Values(scores))
            dist == out.result
        IN
        /\ Len(dist) = Len(scores)
        /\ {dist[i].id : i \in 1..Len(dist)} = Range(Keys(scores))
        /\ \A i \in 1..Len(dist) :
              /\ dist[i].score = Get(scores, dist[i].id)
              /\ IF total = 0
                 THEN dist[i].percentage.num = 0
                 ELSE LET g == Gcd(Abs(dist[i].percentage.den), Abs(total)) IN
                      dist[i].percentage.num * (total \div g) =
                         (dist[i].percentage.den \div g)
                            * (100 * Get(scores, dist[i].id))
        /\ \A i \in 1..Len(dist) - 1 :
              Get(scores, dist[i].id) >= Get(scores, dist[i + 1].id)

-----------------------------------------------------------------------------
(* Claims about calculateCosineSimilarity (SpecCos) *)

\* A vector of norm zero: every component is zero.
ZeroNorm(v) == \A i \in 1..Len(v) : v[i] = 0

(***************************************************************************)
(* C20: calculateCosineSimilarity raises a dimension-mismatch error        *)
(* whenever its two vectors differ in length, and returns exactly 0, a     *)
(* number, whenever the lengths agree and either vector has norm zero.     *)
(***************************************************************************)
C20_MismatchRaisesZeroNormGivesZero ==
    out.op = "calculateCosineSimilarity" =>
        IF Len(out.vector1) # Len(out.vector2)
        THEN out.result.error = "DimensionMismatch"
        ELSE /\ out.result.error = "none"
             /\ ZeroNorm(out.vector1) \/ ZeroNorm(out.vector2) =>
                   out.result.similarity = 0

\* A zero vector against a vector of three components that is not zero.
C20_Witness ==
    /\ out.op = "calculateCosineSimilarity"
    /\ Len(out.vector1) = 3
    /\ Len(out.vector2) = 3
    /\ ZeroNorm(out.vector1)
    /\ ~ZeroNorm(out.vector2)
    /\ out.result = [error |-> "none", similarity |-> 0]

-----------------------------------------------------------------------------
(* Claims about the result of scoreQuiz (Spec, SpecPenalty) *)

(***************************************************************************)
(* C21: whenever scoreQuiz returns a result, primary is an archetype id    *)
(* that is in dominantArchetypes, primaryScore is allScores[primary], and  *)
(* primaryScore is at least tieThreshold and at most maxScore.             *)
(***************************************************************************)
C21_PrimaryIsDominant ==
    QuizReturned =>
        LET r == out.result IN
        /\ r.primary \in Range(r.dominantArchetypes)
        /\ HasKey(r.allScores, r.primary)
        /\ r.primaryScore = <<Get(r.allScores, r.primary)>>
        /\ r.primaryScore[1] * r.tieThreshold.den >= r.tieThreshold.num
        /\ r.primaryScore[1] <= r.maxScore

\* The aggregator returns a map for the inputs at hand, every score zero.
AllScoresZero ==
    LET aggregated == calculateArchetypeScores(questions, userResponses) IN
    /\ aggregated.error = "none"
    /\ \A i \in 1..Len(aggregated.scores) : aggregated.scores[i].score = 0

(***************************************************************************)
(* C22: scoreQuiz resolves dominance before it normalizes: on an input for *)
(* which every aggregated score is zero (an empty response list, or a quiz *)
(* with no question, whose total weight is zero) it fails with the         *)
(* no-valid-scores error, never the zero-total-weight one, and returns no  *)
(* result.                                                                 *)
(***************************************************************************)
C22_NoValidScoresBeforeZeroWeight ==
    /\ out.op = "scoreQuiz" /\ AllScoresZero => out.result.error = "NoValidScores"
    /\ out.op = "scoreQuiz" /\ userResponses = << >> => out.result.error = "NoValidScores"
    /\ out.op = "scoreQuiz" /\ questions = << >> =>
          out.result.error \in {"NoValidScores", "TypeError"}

\* A quiz with no question, whose total weight is zero, and a response.
C22_Witness ==
    /\ out.op = "scoreQuiz"
    /\ questions = << >>
    /\ Len(userResponses) > 0
    /\ AllScoresZero
    /\ out.result.error = "NoValidScores"

AnsweredQuestions ==
    {userResponses[j].questionId :
        j \in {k \in 1..Len(userResponses) : Resolves(questions, userResponses[k])}}

(***************************************************************************)
(* C24: if a scoreQuiz result has isComplete true, every question of the   *)
(* quiz has a response that the aggregator processed, and questionsAnswered*)
(* is the number of distinct questions answered: skipped or duplicate      *)
(* responses never make an incomplete quiz report isComplete true.         *)
(***************************************************************************)
C24_CompleteMeansEveryQuestionAnswered ==
    QuizReturned /\ out.result.isComplete =>
        /\ \A i \in 1..Len(questions) : questions[i].id \in AnsweredQuestions
        /\ out.result.questionsAnswered = Cardinality(AnsweredQuestions)

-----------------------------------------------------------------------------
(* Claims about the legacy UI controller (SpecUi) *)

\* C25: every call of submitAnswer carries the id of the question that is
\* on display when the call is made, and no rendering of a question leads to
\* more than one call of submitAnswer, whatever the order of clicks, key
\* presses and timer callbacks.
C25_OneSubmitPerDisplayedQuestion ==
    /\ \A i \in 1..Len(page.submitted) :
          page.submitted[i].onDisplay = <<page.submitted[i].questionId>>
    /\ \A i, j \in 1..Len(page.submitted) :
          page.submitted[i].display = page.submitted[j].display => i = j

-----------------------------------------------------------------------------
(* Claims about the application of src/js/app.js (SpecApp) *)

\* C26: a displayed question records at most one response and advances the
\* index once, however often selectAnswer runs during the 400 ms delay; when
\* the results are shown the responses are one per question, in the order of
\* the questions, none skipped.
C26_OneResponsePerQuestion ==
    LET quizData == QuizState.quizData[1] IN
    /\ Len(QuizState.responses) <= QuizState.currentQuestionIndex + 1
    /\ QuizState.currentQuestionIndex <= Len(quizData.questions)
    /\ page.screen = "results" =>
          [i \in 1..Len(QuizState.responses) |-> QuizState.responses[i].questionId]
              = [i \in 1..Len(quizData.questions) |-> quizData.questions[i].id]

-----------------------------------------------------------------------------
(* Claims about the legacy state module and quiz logic (SpecState) *)

\* C27: after any sequence of initializeState, recordAnswer and resetQuiz,
\* isQuizComplete is true only if every question has a recorded response, and
\* currentQuestionIndex lies between 0 and the number of questions.
C27_CompleteOnlyWhenAllAnswered ==
    /\ isQuizComplete(state) =>
          \A i \in 1..Len(state.questions) :
             \E j \in 1..Len(state.responses) :
                state.responses[j].questionId = state.questions[i].id
    /\ state.currentQuestionIndex \in 0..Len(state.questions)

\* C28: calculateResult returns an archetype whose score is the maximum of
\* the score map, the first such archetype in declaration order, for every
\* score map that can be reached, all-zero and negative ones included.
C28_ResultIsFirstMaximum ==
    (out.op = "calculateResult" /\ out.result.error = "none") =>
        LET m == out.before.scores
            declared == out.before.archetypes
            id == out.result.dominantArchetype
            first == SetMin({i \in 1..Len(declared) :
                               \A k \in 1..Len(m) : m[k].score <= Get(m, declared[i])})
        IN  /\ HasKey(m, id)
            /\ \A k \in 1..Len(m) : m[k].score <= Get(m, id)
            /\ declared[first] = id

\* The points that the answer of one recorded response awards to an archetype.
RECURSIVE PointsFor(_, _)
PointsFor(entries, id) ==
    IF Len(entries) = 0 THEN 0
    ELSE (IF Head(entries).id = id THEN Head(entries).points ELSE 0)
         + PointsFor(Tail(entries), id)

\* The points that a list of recorded responses awards to an archetype.
RECURSIVE AwardedByResponses(_, _, _)
AwardedByResponses(qs, responses, id) ==
    IF Len(responses) = 0 THEN 0
    ELSE LET r == Head(responses)
             q == CHOOSE q \in Range(qs) : q.id = r.questionId
             a == CHOOSE a \in Range(q.answers) : a.id = r.answerId
         IN  PointsFor(a.archetypeScores, id) + AwardedByResponses(qs, Tail(responses), id)

\* The ids of a recordAnswer call name a question and one of its answers.
KnownIds(st, questionId, answerId) ==
    \E q \in Range(st.questions) :
       q.id = questionId /\ \E a \in Range(q.answers) : a.id = answerId

\* C29: currentQuestionIndex is the number of recorded responses; the score
\* of every known archetype is the sum of the points awarded by the recorded
\* responses; a recordAnswer with an unknown question or answer id changes
\* nothing; resetQuiz puts index, responses and scores back to their initial
\* values and keeps questions and archetypes.
C29_StateBookkeeping ==
    /\ state.currentQuestionIndex = Len(state.responses)
    /\ Range(Keys(state.scores)) = Range(state.archetypes)
    /\ \A k \in 1..Len(state.scores) :
          state.scores[k].score =
              AwardedByResponses(state.questions, state.responses, state.scores[k].id)
    /\ (out.op = "recordAnswer" /\ ~KnownIds(out.before, out.questionId, out.answerId))
          => state = out.before
    /\ out.op = "resetQuiz" =>
          state = initializeState([archetypes |-> out.before.archetypes,
                                   questions |-> out.before.questions])

\* A recordAnswer with an unknown id was made after two answers were recorded
\* and points awarded.
C29_Witness ==
    /\ out.op = "recordAnswer"
    /\ ~KnownIds(out.before, out.questionId, out.answerId)
    /\ Len(state.responses) = 2
    /\ \E k \in 1..Len(state.scores) : state.scores[k].score # 0

-----------------------------------------------------------------------------
(* Claims about the confidence codec (SpecCodec) *)

\* C30: for every confidence the engine produces, decodeConfidence of
\* encodeConfidence has the same level, letter case aside, and the score
\* rounded to the nearest hundredth.
C30_ConfidenceRoundTrip ==
    out.op = "decodeConfidence" =>
        /\ out.decoded.level = <<toLowerCase(out.confidence.level)>>
        /\ out.decoded.score.den = 100
        /\ out.decoded.score.num =
              MathRound(100 * out.confidence.score.num, out.confidence.score.den)

====
